---- MODULE Spec2Model ----
(***************************************************************************)
(* Model of the yoldagilar backend: the daily_progress store, the users    *)
(* table, the submission path (TasksController.submitDailyProgress) and    *)
(* the leaderboard path (LeaderboardController.getLeaderboard over         *)
(* DailyProgressService.getLeaderboardData).                               *)
(*                                                                         *)
(* Conventions.  Dates are day numbers (a larger number is a later day),   *)
(* distance_km is counted in hundredths of a kilometre, a task map is a    *)
(* function from slot keys to JSON values, and JSON values of a task map   *)
(* are written as strings: "true" / "false" are the booleans, "'true'" /   *)
(* "'false'" are the JSON strings "true" / "false".                        *)
(***************************************************************************)
EXTENDS Integers, Sequences, FiniteSets, TLC

VARIABLES users, daily_progress, nsub, sub, resp

vars == <<users, daily_progress, nsub, sub, resp>>

----------------------------------------------------------------------------
(* Bounds of the model *)

MaxUsers == 2
MaxLimit == 2
MaxOffset == 1
MaxSubmits == 2

(* Program constants *)

TOTAL_DAILY_TASKS == 10
MAX_PAGES_READ == 1000
MAX_DISTANCE == 100
WeekDays == 7
MonthDays == 30
FullLimit == 10000

\* the day number of new Date() at the time of the queries
Today == 40

\* a numeric column that is null / undefined in a row
Null == -1

USER_STATUS == {"pending", "approved", "rejected", "suspended"}
APPROVED == "approved"
LEADERBOARD_TYPES == {"overall", "reading", "distance", "consistency"}
TIME_PERIODS == {"daily", "weekly", "monthly", "all"}

TgIds == 1..MaxUsers

Min(a, b) == IF a < b THEN a ELSE b
Max(a, b) == IF a > b THEN a ELSE b

EmptyMap == << >>

----------------------------------------------------------------------------
(* The store *)

\* one row of daily_progress
Row(tg, d, t, pages, dist, cc) ==
  [tg_id |-> tg, date |-> d, tasks |-> t, pages_read |-> pages,
   distance_km |-> dist, completed_count |-> cc]

\* `x || 0` on a numeric column
OrZero(x) == IF x = Null THEN 0 ELSE x

\* .eq('tg_id', tgId) on daily_progress
selectByUser(tgId) == {r \in daily_progress : r.tg_id = tgId}

----------------------------------------------------------------------------
(* DailyProgressService.getUserAllTimeStats *)

RECURSIVE reduceSum(_, _, _)
reduceSum(data, field, sum) ==
  IF data = {} THEN sum
  ELSE LET day == CHOOSE x \in data : TRUE
       IN  reduceSum(data \ {day}, field, sum + OrZero(day[field]))

getUserAllTimeStats_CountsPoints(data) ==
  [total_points   |-> reduceSum(data, "completed_count", 0),
   total_pages    |-> reduceSum(data, "pages_read", 0),
   total_distance |-> reduceSum(data, "distance_km", 0),
   total_days     |-> reduceSum(data, "completed_count", 0)]

getUserAllTimeStats(data) ==
  [total_points   |-> reduceSum(data, "completed_count", 0),
   total_pages    |-> reduceSum(data, "pages_read", 0),
   total_distance |-> reduceSum(data, "distance_km", 0),
   total_days     |-> Cardinality(data)]

----------------------------------------------------------------------------
(* DailyProgressService.getLeaderboardData *)

getDateFilter(period) ==
  CASE period = "daily"   -> Today
    [] period = "weekly"  -> Today - WeekDays
    [] period = "monthly" -> Today - MonthDays
    [] OTHER              -> Null

\* the rows the leaderboard query selects: .gte('date', dateFilter) unless 'all'
selectLeaderboardData(period) ==
  IF period # "all" /\ getDateFilter(period) # Null
  THEN {r \in daily_progress : r.date >= getDateFilter(period)}
  ELSE daily_progress

\* users with tg_id in userIds and status approved
selectLeaderboardUsers_AnyStatus(userIds) == userIds

selectLeaderboardUsers(userIds) ==
  {u \in userIds : users[u] = APPROVED}

ZeroStats ==
  [total_points |-> 0, total_pages |-> 0, total_distance |-> 0, days_count |-> 0]

\* the body of progressData.forEach
accumulate(userStats, progress) ==
  LET userId == progress.tg_id
      old    == IF userId \in DOMAIN userStats THEN userStats[userId] ELSE ZeroStats
      new    == [total_points   |-> old.total_points + OrZero(progress.completed_count),
                 total_pages    |-> old.total_pages + OrZero(progress.pages_read),
                 total_distance |-> old.total_distance + OrZero(progress.distance_km),
                 days_count     |-> old.days_count + 1]
  IN  [u \in DOMAIN userStats \cup {userId} |->
         IF u = userId THEN new ELSE userStats[u]]

RECURSIVE forEachProgress(_, _)
forEachProgress(progressData, userStats) ==
  IF progressData = {} THEN userStats
  ELSE LET progress == CHOOSE x \in progressData : TRUE
       IN  forEachProgress(progressData \ {progress}, accumulate(userStats, progress))

\* Object.entries of an object with integer keys: ascending key order
RECURSIVE objectKeys(_)
objectKeys(S) ==
  IF S = {} THEN << >>
  ELSE LET m == CHOOSE x \in S : \A y \in S : x <= y
       IN  <<m>> \o objectKeys(S \ {m})

\* Object.entries(userStats).map(...).filter(Boolean)
RECURSIVE buildLeaderboard(_, _, _)
buildLeaderboard(keys, userStats, found) ==
  IF keys = << >> THEN << >>
  ELSE LET userId == Head(keys)
           stats  == userStats[userId]
           rest   == buildLeaderboard(Tail(keys), userStats, found)
       IN  IF userId \notin found THEN rest
           ELSE <<[tg_id          |-> userId,
                   total_points   |-> stats.total_points,
                   total_pages    |-> stats.total_pages,
                   total_distance |-> stats.total_distance,
                   days_count     |-> stats.days_count]>> \o rest

sortKey(type) ==
  IF type = "reading" THEN "total_pages"
  ELSE IF type = "distance" THEN "total_distance"
  ELSE "total_points"

\* Array.prototype.sort with (a, b) => b[key] - a[key]: stable, descending
insertSorted(sorted, e, key) ==
  LET n == Cardinality({i \in 1..Len(sorted) : sorted[i][key] >= e[key]})
  IN  SubSeq(sorted, 1, n) \o <<e>> \o SubSeq(sorted, n + 1, Len(sorted))

RECURSIVE sortFrom(_, _, _)
sortFrom(todo, sorted, key) ==
  IF todo = << >> THEN sorted
  ELSE sortFrom(Tail(todo), insertSorted(sorted, Head(todo), key), key)

sortDescending_Unsorted(leaderboard, key) == leaderboard

sortDescending(leaderboard, key) == sortFrom(leaderboard, << >>, key)

\* leaderboard.slice(0, limit)
slice(leaderboard, limit) == SubSeq(leaderboard, 1, Min(limit, Len(leaderboard)))

\* .map((user, index) => ({...user, rank: index + 1, score: user[sortKey]}))
addRankAndScore_RankFromZero(page, key) ==
  [index \in 1..Len(page) |->
     [tg_id          |-> page[index].tg_id,
      total_points   |-> page[index].total_points,
      total_pages    |-> page[index].total_pages,
      total_distance |-> page[index].total_distance,
      days_count     |-> page[index].days_count,
      rank           |-> index - 1,
      score          |-> page[index][key]]]

addRankAndScore(page, key) ==
  [index \in 1..Len(page) |->
     [tg_id          |-> page[index].tg_id,
      total_points   |-> page[index].total_points,
      total_pages    |-> page[index].total_pages,
      total_distance |-> page[index].total_distance,
      days_count     |-> page[index].days_count,
      rank           |-> index,
      score          |-> page[index][key]]]

\* the leaderboard before slicing: grouped, joined with approved users, sorted
sortedLeaderboard(period, type) ==
  LET progressData == selectLeaderboardData(period)
      userIds      == {p.tg_id : p \in progressData}
      found        == selectLeaderboardUsers(userIds)
      userStats    == forEachProgress(progressData, << >>)
      leaderboard  == buildLeaderboard(objectKeys(DOMAIN userStats), userStats, found)
  IN  sortDescending(leaderboard, sortKey(type))

\* options.offset is passed by the controller and not read by the service
getLeaderboardData(period, type, limit, offset) ==
  addRankAndScore(slice(sortedLeaderboard(period, type), limit), sortKey(type))

----------------------------------------------------------------------------
(* LeaderboardController *)

validateLeaderboardParams(period, type, limit, offset) ==
  /\ period \in TIME_PERIODS
  /\ type \in LEADERBOARD_TYPES
  /\ limit >= 1 /\ limit <= 1000
  /\ offset >= 0

formatLeaderboardParticipant(participant, rank) ==
  [tg_id          |-> participant.tg_id,
   rank           |-> rank,
   score          |-> participant.score,
   total_points   |-> participant.total_points,
   total_pages    |-> participant.total_pages,
   total_distance |-> participant.total_distance]

\* the try/catch of getTotalParticipants: a failed fetch is logged and counted 0
getTotalParticipants(period, storeFails) ==
  IF storeFails THEN 0
  ELSE Len(getLeaderboardData(period, "overall", FullLimit, 0))

NoResp == [op |-> "none", code |-> 0]

Idle == [pc |-> "idle"]

\* validateLeaderboardQuery, the route's middleware before the controller
leaderboardQuerySchema(period, type, limit, offset) ==
  /\ period \in TIME_PERIODS
  /\ type \in LEADERBOARD_TYPES
  /\ limit >= 1 /\ limit <= 1000
  /\ offset >= 0

\* which fetch of a request the store fails on
NoFailure == "none"
DataFails == "data"
TotalFails == "total"

\* a response that ends a leaderboard request without entries; reads is the
\* number of leaderboard fetches issued before it
LeaderboardError(op, code, period, type, reads, fail) ==
  [op |-> op, code |-> code, period |-> period, type |-> type,
   reads |-> reads, store_failed |-> fail # NoFailure]

\* GET /api/leaderboard; bound = FALSE is the call through asyncResponse, which
\* invokes the method without its receiver
GetLeaderboard(period, type, limit, offset, bound, fail) ==
  /\ sub.pc = "idle"
  /\ resp.op = "none"
  /\ resp' =
       IF ~leaderboardQuerySchema(period, type, limit, offset)
       THEN LeaderboardError("getLeaderboard", 400, period, type, 0, NoFailure)
       ELSE IF ~bound
       THEN LeaderboardError("getLeaderboard", 500, period, type, 0, NoFailure)
       ELSE IF ~validateLeaderboardParams(period, type, limit, offset)
       THEN LeaderboardError("getLeaderboard", 400, period, type, 0, NoFailure)
       ELSE IF fail = DataFails
       THEN LeaderboardError("getLeaderboard", 500, period, type, 1, fail)
       ELSE LET leaderboardData == getLeaderboardData(period, type, limit, offset)
            IN  [op |-> "getLeaderboard", code |-> 200,
                 period |-> period, type |-> type, limit |-> limit, offset |-> offset,
                 reads |-> 2, store_failed |-> fail # NoFailure,
                 leaderboardData |-> leaderboardData,
                 leaderboard |->
                   [i \in 1..Len(leaderboardData) |->
                      formatLeaderboardParticipant(leaderboardData[i],
                                                   leaderboardData[i].rank)],
                 total_participants |->
                   getTotalParticipants(period, fail = TotalFails)]
  /\ UNCHANGED <<users, daily_progress, nsub, sub>>

\* Math.round(num / den) for den > 0: the nearest integer, halves upwards
MathRound(num, den) == (2 * num + den) \div (2 * den)

\* scores.sort((a, b) => b - a)
RECURSIVE sortScores(_)
sortScores(scores) ==
  IF scores = << >> THEN << >>
  ELSE LET top == CHOOSE i \in 1..Len(scores) :
                    \A j \in 1..Len(scores) : scores[j] <= scores[i]
           rest == [k \in 1..(Len(scores) - 1) |->
                      IF k < top THEN scores[k] ELSE scores[k + 1]]
       IN  <<scores[top]>> \o sortScores(rest)

\* scores.reduce((sum, score) => sum + score, 0)
RECURSIVE reduceScores(_, _)
reduceScores(scores, sum) ==
  IF scores = << >> THEN sum
  ELSE reduceScores(Tail(scores), sum + Head(scores))

completionRange_Exclusive(score) ==
  IF score < 10 THEN "0-10"
  ELSE IF score < 50 THEN "11-50"
  ELSE IF score < 100 THEN "51-100"
  ELSE IF score < 200 THEN "101-200"
  ELSE "200+"

completionRange(score) ==
  IF score <= 10 THEN "0-10"
  ELSE IF score <= 50 THEN "11-50"
  ELSE IF score <= 100 THEN "51-100"
  ELSE IF score <= 200 THEN "101-200"
  ELSE "200+"

completionRanges == {"0-10", "11-50", "51-100", "101-200", "200+"}

calculateLeaderboardStats_LowerMedian(leaderboardData) ==
  LET totalParticipants == Len(leaderboardData)
      scores == sortScores([i \in 1..totalParticipants |->
                              leaderboardData[i].score])
  IN  [total_participants |-> totalParticipants,
       average_points |-> 0,
       median_points |-> IF totalParticipants = 0 THEN 0
                         ELSE scores[((totalParticipants - 1) \div 2) + 1],
       top_10_percent_threshold |-> IF totalParticipants = 0 THEN 0
                                    ELSE scores[(totalParticipants \div 10) + 1],
       most_active_score |-> IF totalParticipants = 0 THEN 0 ELSE scores[1],
       completion_distribution |-> EmptyMap]

calculateLeaderboardStats_NoEmptyCase(leaderboardData) ==
  LET totalParticipants == Len(leaderboardData)
      scores == sortScores([i \in 1..totalParticipants |->
                              leaderboardData[i].score])
  IN  [total_participants |-> totalParticipants,
       average_points |-> Null,
       median_points |-> IF totalParticipants = 0 THEN Null
                         ELSE scores[(totalParticipants \div 2) + 1],
       top_10_percent_threshold |-> IF totalParticipants = 0 THEN Null
                                    ELSE scores[(totalParticipants \div 10) + 1],
       most_active_score |-> IF totalParticipants = 0 THEN Null ELSE scores[1],
       completion_distribution |->
         [k \in completionRanges |->
            Cardinality({i \in 1..totalParticipants :
                           completionRange(scores[i]) = k})]]

\* LeaderboardController.calculateLeaderboardStats; average_points is kept in
\* hundredths, as Math.round(averagePoints * 100) leaves it
calculateLeaderboardStats(leaderboardData) ==
  IF Len(leaderboardData) = 0
  THEN [total_participants |-> 0, average_points |-> 0, median_points |-> 0,
        top_10_percent_threshold |-> 0, most_active_score |-> 0,
        completion_distribution |-> EmptyMap]
  ELSE LET totalParticipants == Len(leaderboardData)
           scores == sortScores([i \in 1..totalParticipants |->
                                   leaderboardData[i].score])
       IN  [total_participants |-> totalParticipants,
            average_points |->
              MathRound(100 * reduceScores(scores, 0), totalParticipants),
            median_points |-> scores[(totalParticipants \div 2) + 1],
            top_10_percent_threshold |-> scores[(totalParticipants \div 10) + 1],
            most_active_score |-> scores[1],
            completion_distribution |->
              [k \in completionRanges |->
                 Cardinality({i \in 1..totalParticipants :
                                completionRange(scores[i]) = k})]]

\* GET /api/leaderboard/stats: the route has no validation middleware and the
\* controller validates nothing; calculateLeaderboardStats is reached through
\* the receiver, after the fetch
GetLeaderboardStats(period, bound, storeFails) ==
  /\ sub.pc = "idle"
  /\ resp.op = "none"
  /\ resp' =
       IF storeFails
       THEN LeaderboardError("getLeaderboardStats", 500, period, "overall", 1, DataFails)
       ELSE IF ~bound
       THEN LeaderboardError("getLeaderboardStats", 500, period, "overall", 1, NoFailure)
       ELSE [op |-> "getLeaderboardStats", code |-> 200,
             period |-> period, type |-> "overall",
             reads |-> 1, store_failed |-> FALSE,
             statistics |->
               calculateLeaderboardStats(
                 getLeaderboardData(period, "overall", FullLimit, 0))]
  /\ UNCHANGED <<users, daily_progress, nsub, sub>>

topPerformer(user, key) ==
  [tg_id |-> user.tg_id, score |-> user[key], rank |-> user.rank]

\* GET /api/leaderboard/top-performers: no validation middleware, no use of the
\* receiver; three fetches under Promise.all
GetTopPerformers(period, limit, storeFails) ==
  /\ sub.pc = "idle"
  /\ resp.op = "none"
  /\ resp' =
       IF storeFails
       THEN LeaderboardError("getTopPerformers", 500, period, "overall", 3, DataFails)
       ELSE LET top(type) == getLeaderboardData(period, type, limit, 0)
                performers(type, key) ==
                  [i \in 1..Len(top(type)) |-> topPerformer(top(type)[i], key)]
            IN  [op |-> "getTopPerformers", code |-> 200,
                 period |-> period, type |-> "overall",
                 reads |-> 3, store_failed |-> FALSE,
                 top_performers |->
                   [overall  |-> performers("overall", "total_points"),
                    reading  |-> performers("reading", "total_pages"),
                    distance |-> performers("distance", "total_distance")]]
  /\ UNCHANGED <<users, daily_progress, nsub, sub>>

\* a call of dailyProgressService.getUserAllTimeStats(tgId)
GetUserAllTimeStats(tgId) ==
  /\ sub.pc = "idle"
  /\ resp.op = "none"
  /\ resp' = [op |-> "getUserAllTimeStats", code |-> 200, tg_id |-> tgId,
              stats |-> getUserAllTimeStats(selectByUser(tgId))]
  /\ UNCHANGED <<users, daily_progress, nsub, sub>>

----------------------------------------------------------------------------
(* The leaderboard specification: the store holds any of the bounded        *)
(* histories below, and one read operation is applied to it (the reads      *)
(* change nothing, so a second read from the same store is another          *)
(* behaviour of this specification).                                        *)

\* the rows of one user: nothing, one day, two days, or rows with null columns
History(u, h) ==
  CASE h = 0 -> {}
    [] h = 1 -> {Row(u, Today, EmptyMap, 0, 0, 3)}
    [] h = 2 -> {Row(u, Today, EmptyMap, 5, 0, 1),
                 Row(u, Today - WeekDays, EmptyMap, 0, 250, 1)}
    [] OTHER -> {Row(u, Today - MonthDays - 1, EmptyMap, Null, Null, Null),
                 Row(u, Today - WeekDays - 1, EmptyMap, Null, 100, 2),
                 Row(u, Today, EmptyMap, 7, Null, Null)}

Histories == 0..3

PeriodInputs == TIME_PERIODS \cup {"yearly"}
TypeInputs == LEADERBOARD_TYPES \cup {"speed"}
LimitInputs == 0..MaxLimit
OffsetInputs == (0 - 1)..MaxOffset
\* the fetches of a leaderboard request the store can fail on
FailInputs == {DataFails, TotalFails}

InitLeaderboard ==
  /\ users \in [TgIds -> USER_STATUS]
  /\ \E h \in [TgIds -> Histories] :
       daily_progress = UNION {History(u, h[u]) : u \in TgIds}
  /\ nsub = 0
  /\ sub = Idle
  /\ resp = NoResp

NextLeaderboard ==
  \/ \E period \in PeriodInputs, type \in TypeInputs,
        limit \in LimitInputs, offset \in OffsetInputs, bound \in BOOLEAN :
       GetLeaderboard(period, type, limit, offset, bound, NoFailure)
  \/ \E tgId \in TgIds : GetUserAllTimeStats(tgId)
  \/ \E period \in PeriodInputs, bound \in BOOLEAN, storeFails \in BOOLEAN :
       GetLeaderboardStats(period, bound, storeFails)
  \/ \E period \in PeriodInputs, limit \in LimitInputs, storeFails \in BOOLEAN :
       GetTopPerformers(period, limit, storeFails)

SpecLeaderboard == InitLeaderboard /\ [][NextLeaderboard]_vars

\* the same stores, with one accepted leaderboard request on which the store
\* fails
NextLeaderboardFailure ==
  \E period \in TIME_PERIODS, type \in LEADERBOARD_TYPES,
     limit \in 1..MaxLimit, fail \in FailInputs :
    GetLeaderboard(period, type, limit, 0, TRUE, fail)

SpecLeaderboardFailure == InitLeaderboard /\ [][NextLeaderboardFailure]_vars

----------------------------------------------------------------------------
(* A leaderboard request between whose two fetches the store changes: the   *)
(* page is built by the first `await getLeaderboardData`, the participant   *)
(* count by the `await this.getTotalParticipants` after it, and an admin's  *)
(* status update can be served in between.                                  *)

\* getLeaderboard up to and including the first fetch; the handler is called
\* with its receiver and the query has passed the middleware
BuildLeaderboardPage(period, type, limit) ==
  /\ sub.pc = "idle"
  /\ resp.op = "none"
  /\ leaderboardQuerySchema(period, type, limit, 0)
  /\ validateLeaderboardParams(period, type, limit, 0)
  /\ sub' = [pc |-> "counting", period |-> period, type |-> type,
             limit |-> limit,
             leaderboardData |-> getLeaderboardData(period, type, limit, 0)]
  /\ UNCHANGED <<users, daily_progress, nsub, resp>>

\* UserService.updateUserStatus, served while the request awaits
UpdateUserStatus(tgId, status) ==
  /\ sub.pc = "counting"
  /\ users[tgId] # status
  /\ users' = [users EXCEPT ![tgId] = status]
  /\ UNCHANGED <<daily_progress, nsub, sub, resp>>

\* getLeaderboard from getTotalParticipants to the response
CountParticipants ==
  /\ sub.pc = "counting"
  /\ resp' = [op |-> "getLeaderboard", code |-> 200,
              period |-> sub.period, type |-> sub.type, limit |-> sub.limit,
              offset |-> 0, reads |-> 2, store_failed |-> FALSE,
              leaderboardData |-> sub.leaderboardData,
              leaderboard |->
                [i \in 1..Len(sub.leaderboardData) |->
                   formatLeaderboardParticipant(sub.leaderboardData[i],
                                                sub.leaderboardData[i].rank)],
              total_participants |-> getTotalParticipants(sub.period, FALSE)]
  /\ sub' = Idle
  /\ UNCHANGED <<users, daily_progress, nsub>>

InterleavedStatuses == {APPROVED, "suspended"}

InitInterleaved ==
  /\ users \in [TgIds -> InterleavedStatuses]
  /\ \E h \in [TgIds -> Histories] :
       daily_progress = UNION {History(u, h[u]) : u \in TgIds}
  /\ nsub = 0
  /\ sub = Idle
  /\ resp = NoResp

NextInterleaved ==
  \/ \E period \in {"all", "daily"}, type \in {"overall", "reading"},
        limit \in 1..MaxLimit :
       BuildLeaderboardPage(period, type, limit)
  \/ \E tgId \in TgIds, status \in InterleavedStatuses :
       UpdateUserStatus(tgId, status)
  \/ CountParticipants

SpecInterleaved == InitInterleaved /\ [][NextInterleaved]_vars

----------------------------------------------------------------------------
(* UserService.getUserByTelegramId and the handlers that look a user up *)

\* .single() of the query builder: the one selected row, or the error
\* PGRST116 (no rows found) with no data
single(rows) ==
  IF Cardinality(rows) = 1
  THEN [data |-> CHOOSE r \in rows : TRUE, error |-> FALSE]
  ELSE [data |-> Null, error |-> TRUE]

getUserByTelegramId_NullWhenAbsent(tgId) ==
  [thrown |-> FALSE, data |-> single({u \in DOMAIN users : u = tgId}).data]

\* executeQuery throws a DatabaseError whenever result.error is set; thrown
\* is that exception leaving getUserByTelegramId, data is result.data
getUserByTelegramId(tgId) ==
  LET result == single({u \in DOMAIN users : u = tgId})
  IN  [thrown |-> result.error, data |-> result.data]

\* AuthController.checkUser
CheckUser(tgId) ==
  /\ sub.pc = "idle"
  /\ resp.op = "none"
  /\ resp' =
       IF tgId <= 0
       THEN [op |-> "checkUser", code |-> 400, tg_id |-> tgId,
             database_error |-> FALSE]
       ELSE LET user == getUserByTelegramId(tgId)
            IN  IF user.thrown
                THEN [op |-> "checkUser", code |-> 500, tg_id |-> tgId,
                      database_error |-> TRUE]
                ELSE IF user.data = Null
                THEN [op |-> "checkUser", code |-> 200, tg_id |-> tgId,
                      database_error |-> FALSE,
                      isRegistered |-> FALSE, isApproved |-> FALSE]
                ELSE [op |-> "checkUser", code |-> 200, tg_id |-> tgId,
                      database_error |-> FALSE,
                      isRegistered |-> TRUE,
                      isApproved |-> users[user.data] = APPROVED]
  /\ UNCHANGED <<users, daily_progress, nsub, sub>>

\* validateTelegramId: a positive number, or a string of digits
telegramIdSchema(tgId) == tgId >= 0

findIndex_LastWhenAbsent(leaderboard, telegramId) ==
  LET matches == {i \in 1..Len(leaderboard) : leaderboard[i].tg_id = telegramId}
  IN  IF matches = {} THEN Len(leaderboard) - 1
      ELSE (CHOOSE i \in matches : \A j \in matches : i <= j) - 1

\* fullLeaderboard.findIndex(participant => participant.tg_id === telegramId),
\* zero-based, -1 when no entry matches
findIndex(leaderboard, telegramId) ==
  LET matches == {i \in 1..Len(leaderboard) : leaderboard[i].tg_id = telegramId}
  IN  IF matches = {} THEN 0 - 1
      ELSE (CHOOSE i \in matches : \A j \in matches : i <= j) - 1

surroundingCount == 3

getSurroundingUsers_Wraps(leaderboard, userPosition) ==
  LET n == Len(leaderboard)
  IN  [index \in 1..Min(n, 2 * surroundingCount + 1) |->
         LET at == (userPosition - surroundingCount + index - 1 + n * surroundingCount) % n
         IN  [rank |-> at + 1,
              tg_id |-> leaderboard[at + 1].tg_id,
              score |-> leaderboard[at + 1].score,
              is_current_user |-> at = userPosition]]

\* LeaderboardController.getSurroundingUsers; userPosition is zero-based
getSurroundingUsers(leaderboard, userPosition) ==
  LET start == Max(0, userPosition - surroundingCount)
      end   == Min(Len(leaderboard), userPosition + surroundingCount + 1)
  IN  [index \in 1..(end - start) |->
         LET user == leaderboard[start + index]
         IN  [rank |-> start + (index - 1) + 1,
              tg_id |-> user.tg_id,
              score |-> user.score,
              is_current_user |-> start + (index - 1) = userPosition]]

(* JavaScript numbers are IEEE 754 doubles.  A positive double is kept as     *)
(* [bits, exp]: bits is its significand, most significant bit first, at     *)
(* most Precision bits with a leading 1, and its value is bits * 2^exp.     *)

Precision == 53

Zero == [bits |-> << >>, exp |-> 0]

\* bits without its leading zeros
stripZeros(bits) ==
  LET ones == {i \in 1..Len(bits) : bits[i] = 1}
  IN  IF ones = {} THEN << >>
      ELSE SubSeq(bits, CHOOSE i \in ones : \A j \in ones : i <= j, Len(bits))

\* bits + 1; one bit longer when the carry leaves the top
increment(bits) ==
  LET zeros == {i \in 1..Len(bits) : bits[i] = 0}
  IN  IF zeros = {} THEN <<1>> \o [i \in 1..Len(bits) |-> 0]
      ELSE LET last == CHOOSE i \in zeros : \A j \in zeros : j <= i
           IN  [i \in 1..Len(bits) |->
                  IF i < last THEN bits[i] ELSE IF i = last THEN 1 ELSE 0]

\* round to nearest, ties to even: half is the first bit dropped below bits,
\* sticky says whether anything non-zero was dropped below that
roundNearestEven(bits, exp, half, sticky) ==
  IF half = 1 /\ (sticky \/ bits[Len(bits)] = 1)
  THEN LET up == increment(bits)
       IN  IF Len(up) > Len(bits)
           THEN [bits |-> SubSeq(up, 1, Len(bits)), exp |-> exp + 1]
           ELSE [bits |-> up, exp |-> exp]
  ELSE [bits |-> bits, exp |-> exp]

\* the double nearest to the exact value bits * 2^exp
toDouble(bits, exp) ==
  LET b == stripZeros(bits)
  IN  IF Len(b) <= Precision THEN [bits |-> b, exp |-> exp]
      ELSE roundNearestEven(SubSeq(b, 1, Precision), exp + Len(b) - Precision,
                            b[Precision + 1],
                            \E i \in (Precision + 2)..Len(b) : b[i] = 1)

\* 2^k modulo n, by squaring
RECURSIVE pow2mod(_, _)
pow2mod(k, n) ==
  IF k = 0 THEN 1 % n
  ELSE LET h == pow2mod(k \div 2, n)
       IN  (((h * h) % n) * (IF k % 2 = 1 THEN 2 ELSE 1)) % n

\* binary long division of a / n for 0 < a < n < 2^15: the remainder after k
\* quotient bits is a * 2^k mod n, and bit k is 1 when twice the remainder
\* before it reaches n; the quotient is cut after Precision significant bits
quotientBits(a, n) ==
  LET rem(k) == (a * pow2mod(k, n)) % n
      bit(k) == IF 2 * rem(k - 1) >= n THEN 1 ELSE 0
      first  == CHOOSE k \in 1..16 : bit(k) = 1 /\ \A j \in 1..(k - 1) : bit(j) = 0
  IN  [bits |-> [i \in 1..Precision |-> bit(first + i - 1)],
       exp  |-> 0 - (first + Precision - 1),
       rem  |-> rem(first + Precision - 1)]

\* userPosition / length for 0 <= userPosition < length
DoubleDivide(a, n) ==
  IF a = 0 THEN Zero
  ELSE LET q == quotientBits(a, n)
       IN  roundNearestEven(q.bits, q.exp,
                            IF 2 * q.rem >= n THEN 1 ELSE 0,
                            (2 * q.rem) % n # 0)

\* 1 - q for a double 0 <= q < 1: 2^(-exp) - bits is the complement of the
\* significand, padded to -exp bits, plus one
DoubleOneMinus(q) ==
  IF q = Zero THEN [bits |-> <<1>>, exp |-> 0]
  ELSE LET width  == 0 - q.exp
           pad    == width - Len(q.bits)
           flipped == [i \in 1..width |->
                         IF i <= pad THEN 1 ELSE 1 - q.bits[i - pad]]
       IN  toDouble(increment(flipped), q.exp)

\* a significand is handled in limbs of LimbBits bits
LimbBits == 24

\* the low width bits of k, most significant first
toBits(k, width) == [i \in 1..width |-> (k \div (2 ^ (width - i))) % 2]

RECURSIVE toInteger(_)
toInteger(bits) ==
  IF bits = << >> THEN 0
  ELSE 2 * toInteger(SubSeq(bits, 1, Len(bits) - 1)) + bits[Len(bits)]

\* bits * c exactly, for a significand of at most Precision bits and c < 128:
\* three limbs from the least significant, the carry passed upwards
timesSmall(bits, c) ==
  LET padded == [i \in 1..(3 * LimbBits - Len(bits)) |-> 0] \o bits
      limb(k) == toInteger(SubSeq(padded, (2 - k) * LimbBits + 1,
                                          (3 - k) * LimbBits))
      v0 == limb(0) * c
      v1 == limb(1) * c + v0 \div (2 ^ LimbBits)
      v2 == limb(2) * c + v1 \div (2 ^ LimbBits)
  IN  toBits(v2, 31) \o toBits(v1 % (2 ^ LimbBits), LimbBits)
                     \o toBits(v0 % (2 ^ LimbBits), LimbBits)

\* x * c for a double x and a small integer c
DoubleTimes(x, c) == toDouble(timesSmall(x.bits, c), x.exp)

\* Math.round of a double 0 <= x < 2^30 with exp <= 0: the integer part, plus
\* one when the fraction is at least a half
MathRoundDouble(x) ==
  LET whole == Len(x.bits) + x.exp
  IN  IF whole < 0 THEN 0
      ELSE toInteger(SubSeq(x.bits, 1, whole))
             + (IF whole + 1 <= Len(x.bits) THEN x.bits[whole + 1] ELSE 0)

\* Math.round((1 - userPosition / fullLeaderboard.length) * 100)
percentile(userPosition, length) ==
  MathRoundDouble(DoubleTimes(DoubleOneMinus(DoubleDivide(userPosition, length)), 100))

PositionError(code, tgId, period, type, reads, dbError) ==
  [op |-> "getUserLeaderboardPosition", code |-> code, tg_id |-> tgId,
   period |-> period, type |-> type, reads |-> reads,
   database_error |-> dbError]

\* GET /api/leaderboard/position/:tg_id behind validateTelegramId and
\* validateLeaderboardQuery; bound = FALSE is the call through asyncResponse
GetUserLeaderboardPosition(tgId, period, type, bound, storeFails) ==
  /\ sub.pc = "idle"
  /\ resp.op = "none"
  /\ resp' =
       IF ~telegramIdSchema(tgId) \/ ~leaderboardQuerySchema(period, type, 100, 0)
       THEN PositionError(400, tgId, period, type, 0, FALSE)
       ELSE IF tgId <= 0
       THEN PositionError(400, tgId, period, type, 0, FALSE)
       ELSE LET user == getUserByTelegramId(tgId)
                fullLeaderboard == getLeaderboardData(period, type, FullLimit, 0)
                userPosition == findIndex(fullLeaderboard, tgId)
            IN  IF user.thrown
                THEN PositionError(500, tgId, period, type, 0, TRUE)
                ELSE IF user.data = Null
                THEN PositionError(404, tgId, period, type, 0, FALSE)
                ELSE IF users[user.data] # APPROVED
                THEN PositionError(403, tgId, period, type, 0, FALSE)
                ELSE IF storeFails
                THEN PositionError(500, tgId, period, type, 1, TRUE)
                ELSE IF userPosition = 0 - 1
                THEN [op |-> "getUserLeaderboardPosition", code |-> 200,
                      tg_id |-> tgId, period |-> period, type |-> type,
                      reads |-> 1, database_error |-> FALSE,
                      bound |-> bound,
                      user_position_null |-> TRUE,
                      total_participants |-> Len(fullLeaderboard)]
                ELSE IF ~bound
                THEN PositionError(500, tgId, period, type, 1, FALSE)
                ELSE [op |-> "getUserLeaderboardPosition", code |-> 200,
                      tg_id |-> tgId, period |-> period, type |-> type,
                      reads |-> 1, database_error |-> FALSE,
                      bound |-> bound,
                      user_position_null |-> FALSE,
                      userPosition |-> userPosition,
                      fullLeaderboard |-> fullLeaderboard,
                      user_position |->
                        [rank |-> userPosition + 1,
                         score |-> fullLeaderboard[userPosition + 1].score,
                         percentile |->
                           percentile(userPosition, Len(fullLeaderboard))],
                      surrounding_users |->
                        getSurroundingUsers(fullLeaderboard, userPosition),
                      total_participants |-> Len(fullLeaderboard)]
  /\ UNCHANGED <<users, daily_progress, nsub, sub>>

----------------------------------------------------------------------------
(* The position specification: users 1 .. MaxBoard exist, the last of them  *)
(* pending and the others approved; any subset of them holds one row, every *)
(* second one older than a week; one lookup is applied to that store.       *)

MaxBoard == 9

BoardIds == 1..MaxBoard

\* the one row of a user that has submitted
BoardRow(u) ==
  Row(u, IF u % 2 = 0 THEN Today ELSE Today - WeekDays - 1, EmptyMap,
      u % 3, 100 * (u % 2), ((u * 3) % 4) + 1)

\* 0 is not a Telegram id and MaxBoard + 1 has no user row
PositionIds == 0..(MaxBoard + 1)
PositionPeriods == {"all", "weekly", "yearly"}
PositionTypes == {"overall", "reading", "speed"}

InitPosition ==
  /\ users = [u \in BoardIds |-> IF u = MaxBoard THEN "pending" ELSE APPROVED]
  /\ \E submitted \in SUBSET BoardIds :
       daily_progress = {BoardRow(u) : u \in submitted}
  /\ nsub = 0
  /\ sub = Idle
  /\ resp = NoResp

NextPosition ==
  \/ \E tgId \in PositionIds, period \in PositionPeriods, type \in PositionTypes,
        bound \in BOOLEAN, storeFails \in BOOLEAN :
       GetUserLeaderboardPosition(tgId, period, type, bound, storeFails)
  \/ \E tgId \in PositionIds : CheckUser(tgId)

SpecPosition == InitPosition /\ [][NextPosition]_vars

----------------------------------------------------------------------------
(* The percentile specification: the rank and percentile computation of     *)
(* getUserLeaderboardPosition applied to every position of every board      *)
(* length up to MaxEntries.                                                 *)

MaxEntries == 40

\* the user_position fields computed for a user found at userPosition
Percentile(userPosition, length) ==
  /\ sub.pc = "idle"
  /\ resp.op = "none"
  /\ resp' = [op |-> "percentile", code |-> 200,
              userPosition |-> userPosition, length |-> length,
              rank |-> userPosition + 1,
              percentile |-> percentile(userPosition, length)]
  /\ UNCHANGED <<users, daily_progress, nsub, sub>>

InitPercentile ==
  /\ users = << >>
  /\ daily_progress = {}
  /\ nsub = 0
  /\ sub = Idle
  /\ resp = NoResp

NextPercentile ==
  \E length \in 1..MaxEntries : \E userPosition \in 0..(length - 1) :
    Percentile(userPosition, length)

SpecPercentile == InitPercentile /\ [][NextPercentile]_vars

----------------------------------------------------------------------------
(* The statistics specification: calculateLeaderboardStats applied to the   *)
(* score column of a board of up to MaxScores entries, in the descending    *)
(* order getLeaderboardData leaves it in: the first `high` entries carry    *)
(* one score, the others a score that is not larger.                        *)

MaxScores == 11

\* scores on both sides of every bucket boundary
ScoreInputs == {0, 10, 11, 50, 51, 100, 101, 200, 201}

\* a call of calculateLeaderboardStats(leaderboardData)
CalculateLeaderboardStats(leaderboardData) ==
  /\ sub.pc = "idle"
  /\ resp.op = "none"
  /\ resp' = [op |-> "calculateLeaderboardStats", code |-> 200,
              leaderboardData |-> leaderboardData,
              statistics |-> calculateLeaderboardStats(leaderboardData)]
  /\ UNCHANGED <<users, daily_progress, nsub, sub>>

InitStats ==
  /\ users = << >>
  /\ daily_progress = {}
  /\ nsub = 0
  /\ sub = Idle
  /\ resp = NoResp

NextStats ==
  \E n \in 0..MaxScores, upper \in ScoreInputs, lower \in ScoreInputs :
    \E high \in 0..n :
      /\ lower <= upper
      /\ CalculateLeaderboardStats(
           [i \in 1..n |-> [rank |-> i,
                            score |-> IF i <= high THEN upper ELSE lower]])

SpecStats == InitStats /\ [][NextStats]_vars

----------------------------------------------------------------------------
(* Achievements: the tiered badges of the leaderboard controller and the    *)
(* cumulative badges of the user controller.  Distances are in hundredths   *)
(* of a kilometre, as everywhere in this model.                             *)

Km(k) == 100 * k

Achievement(id, category, rarity) ==
  [id |-> id, category |-> category, rarity |-> rarity]

calculateUserAchievements_EveryTier(stats) ==
     (IF stats.total_points >= 500
        THEN <<Achievement("point_master", "points", "epic")>> ELSE << >>)
  \o (IF stats.total_points >= 100
        THEN <<Achievement("point_collector", "points", "rare")>> ELSE << >>)
  \o (IF stats.total_pages >= 1000
        THEN <<Achievement("library_master", "reading", "legendary")>> ELSE << >>)
  \o (IF stats.total_pages >= 500
        THEN <<Achievement("book_lover", "reading", "epic")>> ELSE << >>)
  \o (IF stats.total_pages >= 100
        THEN <<Achievement("bookworm", "reading", "rare")>> ELSE << >>)
  \o (IF stats.total_distance >= Km(500)
        THEN <<Achievement("ultra_runner", "fitness", "legendary")>> ELSE << >>)
  \o (IF stats.total_distance >= Km(200)
        THEN <<Achievement("marathon_hero", "fitness", "epic")>> ELSE << >>)
  \o (IF stats.total_distance >= Km(50)
        THEN <<Achievement("runner", "fitness", "rare")>> ELSE << >>)
  \o (IF stats.days_count >= 100
        THEN <<Achievement("centurion", "consistency", "legendary")>> ELSE << >>)
  \o (IF stats.days_count >= 30
        THEN <<Achievement("month_master", "consistency", "epic")>> ELSE << >>)
  \o (IF stats.days_count >= 7
        THEN <<Achievement("week_warrior", "consistency", "rare")>> ELSE << >>)

\* LeaderboardController.calculateUserAchievements: one if / else-if chain per
\* category, pushed in the order points, reading, fitness, consistency
calculateUserAchievements(stats) ==
     (IF stats.total_points >= 500
        THEN <<Achievement("point_master", "points", "epic")>>
      ELSE IF stats.total_points >= 100
        THEN <<Achievement("point_collector", "points", "rare")>>
      ELSE << >>)
  \o (IF stats.total_pages >= 1000
        THEN <<Achievement("library_master", "reading", "legendary")>>
      ELSE IF stats.total_pages >= 500
        THEN <<Achievement("book_lover", "reading", "epic")>>
      ELSE IF stats.total_pages >= 100
        THEN <<Achievement("bookworm", "reading", "rare")>>
      ELSE << >>)
  \o (IF stats.total_distance >= Km(500)
        THEN <<Achievement("ultra_runner", "fitness", "legendary")>>
      ELSE IF stats.total_distance >= Km(200)
        THEN <<Achievement("marathon_hero", "fitness", "epic")>>
      ELSE IF stats.total_distance >= Km(50)
        THEN <<Achievement("runner", "fitness", "rare")>>
      ELSE << >>)
  \o (IF stats.days_count >= 100
        THEN <<Achievement("centurion", "consistency", "legendary")>>
      ELSE IF stats.days_count >= 30
        THEN <<Achievement("month_master", "consistency", "epic")>>
      ELSE IF stats.days_count >= 7
        THEN <<Achievement("week_warrior", "consistency", "rare")>>
      ELSE << >>)

\* rarityScores[achievement.rarity] || 10
rarityScores(rarity) ==
  CASE rarity = "common"    -> 10
    [] rarity = "rare"      -> 25
    [] rarity = "epic"      -> 50
    [] rarity = "legendary" -> 100
    [] OTHER                -> 10

\* LeaderboardController.calculateAchievementScore
RECURSIVE calculateAchievementScore(_)
calculateAchievementScore(achievements) ==
  IF achievements = << >> THEN 0
  ELSE rarityScores(Head(achievements).rarity)
         + calculateAchievementScore(Tail(achievements))

calculateAchievements_HighestTier(stats) ==
     (IF stats.total_days >= 30 THEN <<"month_master">>
      ELSE IF stats.total_days >= 7 THEN <<"week_warrior">> ELSE << >>)
  \o (IF stats.total_pages >= 1000 THEN <<"library_master">>
      ELSE IF stats.total_pages >= 100 THEN <<"bookworm">> ELSE << >>)
  \o (IF stats.total_distance >= Km(200) THEN <<"marathon_hero">>
      ELSE IF stats.total_distance >= Km(50) THEN <<"runner">> ELSE << >>)
  \o (IF stats.total_points >= 100 THEN <<"point_collector">> ELSE << >>)

\* UserController.calculateAchievements: the ids pushed, in order
calculateAchievements(stats) ==
     (IF stats.total_days >= 7 THEN <<"week_warrior">> ELSE << >>)
  \o (IF stats.total_days >= 30 THEN <<"month_master">> ELSE << >>)
  \o (IF stats.total_pages >= 100 THEN <<"bookworm">> ELSE << >>)
  \o (IF stats.total_pages >= 1000 THEN <<"library_master">> ELSE << >>)
  \o (IF stats.total_distance >= Km(50) THEN <<"runner">> ELSE << >>)
  \o (IF stats.total_distance >= Km(200) THEN <<"marathon_hero">> ELSE << >>)
  \o (IF stats.total_points >= 100 THEN <<"point_collector">> ELSE << >>)

\* a call of calculateUserAchievements(stats)
CalculateUserAchievements(stats) ==
  /\ sub.pc = "idle"
  /\ resp.op = "none"
  /\ resp' = [op |-> "calculateUserAchievements", code |-> 200, stats |-> stats,
              achievements |-> calculateUserAchievements(stats)]
  /\ UNCHANGED <<users, daily_progress, nsub, sub>>

\* a call of calculateAchievements(stats)
CalculateAchievements(stats) ==
  /\ sub.pc = "idle"
  /\ resp.op = "none"
  /\ resp' = [op |-> "calculateAchievements", code |-> 200, stats |-> stats,
              achievements |-> calculateAchievements(stats)]
  /\ UNCHANGED <<users, daily_progress, nsub, sub>>

\* stats on and around every threshold
PointsInputs == {0, 99, 100, 499, 500, 600}
PagesInputs == {0, 99, 100, 499, 500, 999, 1000}
DistanceInputs == {0, Km(50) - 1, Km(50), Km(200) - 1, Km(200), Km(500) - 1, Km(500)}
DaysInputs == {0, 6, 7, 29, 30, 99, 100}

InitAchievements ==
  /\ users = << >>
  /\ daily_progress = {}
  /\ nsub = 0
  /\ sub = Idle
  /\ resp = NoResp

NextAchievements ==
  \E points \in PointsInputs, pages \in PagesInputs,
     distance \in DistanceInputs, days \in DaysInputs :
    \/ CalculateUserAchievements(
         [total_points |-> points, total_pages |-> pages,
          total_distance |-> distance, days_count |-> days])
    \/ CalculateAchievements(
         [total_points |-> points, total_pages |-> pages,
          total_distance |-> distance, total_days |-> days])

SpecAchievements == InitAchievements /\ [][NextAchievements]_vars

\* allUsersData.map(user => ({...user, achievements, achievement_count,
\* achievement_score}))
withAchievements(allUsersData) ==
  [i \in 1..Len(allUsersData) |->
     LET user == allUsersData[i]
         achievements ==
           calculateUserAchievements(
             [total_points |-> user.total_points, total_pages |-> user.total_pages,
              total_distance |-> user.total_distance, days_count |-> user.days_count])
     IN  [tg_id |-> user.tg_id,
          achievements |-> achievements,
          achievement_count |-> Len(achievements),
          achievement_score |-> calculateAchievementScore(achievements)]]

\* .slice(0, parseInt(limit)).map((user, index) => ({rank: index + 1, ...}))
topAchievers(usersWithAchievements, limit) ==
  LET top == slice(usersWithAchievements, limit)
  IN  [index \in 1..Len(top) |->
         [rank |-> index,
          tg_id |-> top[index].tg_id,
          achievement_count |-> top[index].achievement_count,
          achievement_score |-> top[index].achievement_score]]

\* GET /api/leaderboard/achievements: no validation middleware; the badges
\* are computed through the receiver inside the map callback, so the unbound
\* call fails on the first user and succeeds on an empty board
GetAchievementLeaderboard(limit, bound, storeFails) ==
  LET allUsersData == getLeaderboardData("all", "overall", limit * 2, 0)
      usersWithAchievements ==
        sortDescending(withAchievements(allUsersData), "achievement_score")
  IN  /\ sub.pc = "idle"
      /\ resp.op = "none"
      /\ resp' =
           IF storeFails \/ (~bound /\ Len(allUsersData) > 0)
           THEN [op |-> "getAchievementLeaderboard", code |-> 500, limit |-> limit]
           ELSE [op |-> "getAchievementLeaderboard", code |-> 200, limit |-> limit,
                 achievement_leaderboard |->
                   topAchievers(usersWithAchievements, limit),
                 total_participants |-> Len(usersWithAchievements)]
      /\ UNCHANGED <<users, daily_progress, nsub, sub>>

----------------------------------------------------------------------------
(* The achievement board specification: users 1 .. MaxAchievers, of any     *)
(* status, each with one of the histories below; one request is applied.    *)

MaxAchievers == 3

AchieverIds == 1..MaxAchievers

\* nothing; five tasks on one day; one task and 100 pages; three tasks, 500
\* pages and 50 km over two days
AchieverHistory(u, h) ==
  CASE h = 0 -> {}
    [] h = 1 -> {Row(u, Today, EmptyMap, 0, 0, 5)}
    [] h = 2 -> {Row(u, Today, EmptyMap, 100, 0, 1)}
    [] OTHER -> {Row(u, Today, EmptyMap, 500, Km(20), 2),
                 Row(u, Today - 1, EmptyMap, 0, Km(30), 1)}

AchieverStatuses == {APPROVED, "pending"}

InitAchievementBoard ==
  /\ users \in [AchieverIds -> AchieverStatuses]
  /\ \E h \in [AchieverIds -> Histories] :
       daily_progress = UNION {AchieverHistory(u, h[u]) : u \in AchieverIds}
  /\ nsub = 0
  /\ sub = Idle
  /\ resp = NoResp

NextAchievementBoard ==
  \E limit \in LimitInputs, bound \in BOOLEAN, storeFails \in BOOLEAN :
    GetAchievementLeaderboard(limit, bound, storeFails)

SpecAchievementBoard == InitAchievementBoard /\ [][NextAchievementBoard]_vars

----------------------------------------------------------------------------
(* POST /api/tasks/submit: validateDailyProgress, then                      *)
(* TasksController.submitDailyProgress                                      *)

\* the dates a request names: yesterday and today
Dates == {Today - 1, Today}

\* JSON values of a task map
BoolTrue == "true"
BoolFalse == "false"
StrTrue == "'true'"
StrFalse == "'false'"
StrYes == "'yes'"

\* task maps of the request bodies; a key k stands for the property name that
\* is the decimal numeral of k
TasksOneOfTwo == (1 :> BoolTrue) @@ (2 :> BoolFalse)
TasksAllTen == [k \in 1..TOTAL_DAILY_TASKS |-> BoolTrue]
TasksEleven == [k \in 1..(TOTAL_DAILY_TASKS + 1) |-> BoolTrue]
TasksStringFalse == (5 :> StrFalse)
TasksStringTrue == (1 :> StrTrue)
TasksYes == (5 :> StrYes)

\* the part of a request body besides tg_id and date
Content(t, pages, dist, cc) ==
  [tasks |-> t, pages_read |-> pages, distance_km |-> dist, completed_count |-> cc]

Contents ==
  {Content(TasksOneOfTwo, Null, Null, Null),
   Content(TasksAllTen, 5, 250, 3),
   Content(TasksEleven, Null, Null, Null),
   Content(TasksStringFalse, Null, Null, Null),
   Content(TasksStringTrue, Null, Null, Null),
   Content(TasksYes, Null, Null, Null),
   Content(TasksOneOfTwo, MAX_PAGES_READ + 1, Null, Null)}

\* /^[1-9]|10$/ on the numeral of k: it begins with a digit 1-9, or ends in 10
taskKeyPattern(k) == k >= 1

\* Joi.boolean() with convert: a boolean, or the strings "true" / "false"
joiBoolean(v) == v \in {BoolTrue, BoolFalse, StrTrue, StrFalse}

\* dailyProgressSchema.validate(req.body): TRUE when there is no error; the
\* validated value goes to req.validatedBody and req.body stays as sent
dailyProgressSchema(body) ==
  /\ body.tg_id >= 1
  /\ \A k \in DOMAIN body.tasks : taskKeyPattern(k) => joiBoolean(body.tasks[k])
  /\ body.pages_read # Null => body.pages_read >= 0 /\ body.pages_read <= MAX_PAGES_READ
  /\ body.distance_km # Null =>
       body.distance_km >= 0 /\ body.distance_km <= MAX_DISTANCE * 100

\* typeof v === 'boolean'
isBoolean(v) == v \in {BoolTrue, BoolFalse}

\* Boolean(v): false and the empty string are falsy
truthy(v) == v # BoolFalse

\* destructuring defaults: pages_read = 0, distance_km = 0
orDefault(x) == IF x = Null THEN 0 ELSE x

validateSubmissionData(tasks, pagesRead, distanceKm) ==
  /\ \A taskId \in {1, 2, 3, 4, 6, 7, 8, 9} :
       taskId \in DOMAIN tasks => isBoolean(tasks[taskId])
  /\ pagesRead >= 0 /\ pagesRead <= MAX_PAGES_READ
  /\ distanceKm >= 0 /\ distanceKm <= MAX_DISTANCE * 100

\* Object.values(tasks).filter(Boolean).length
completedCount(tasks) == Cardinality({k \in DOMAIN tasks : truthy(tasks[k])})

\* .upsert(dataToInsert, {onConflict: ['tg_id', 'date']})
upsert_Appends(table, row) == table \cup {row}

upsert(table, row) ==
  {r \in table : ~(r.tg_id = row.tg_id /\ r.date = row.date)} \cup {row}

\* DailyProgressService.submitDailyProgress: the row it writes
dataToInsert(progressData) ==
  Row(progressData.tg_id,
      IF progressData.date = Null THEN Today ELSE progressData.date,
      progressData.tasks,
      OrZero(progressData.pages_read),
      OrZero(progressData.distance_km),
      OrZero(progressData.completed_count))

NoAchievement == "none"

\* TasksController.checkForAchievements on the stats read after the save
checkForAchievements_PerfectFirst(allTimeStats, progress) ==
  IF progress.completed_count = TOTAL_DAILY_TASKS THEN "perfect_day"
  ELSE IF allTimeStats.total_days = 1 THEN "first_day"
  ELSE IF allTimeStats.total_days = 7 THEN "week_warrior"
  ELSE NoAchievement

checkForAchievements(allTimeStats, progress) ==
  IF allTimeStats.total_days = 1 THEN "first_day"
  ELSE IF allTimeStats.total_days = 7 THEN "week_warrior"
  ELSE IF progress.completed_count = TOTAL_DAILY_TASKS THEN "perfect_day"
  ELSE NoAchievement

SubmitError(body, code) ==
  [op |-> "submitDailyProgress", code |-> code,
   achievement_check_failed |-> FALSE]

\* what a rejected promise of the check would hand to the handler
Thrown == "thrown"

tryCheckForAchievements_Rethrows(statsFail, data, progress) ==
  IF statsFail THEN Thrown
  ELSE checkForAchievements(getUserAllTimeStats(data), progress)

\* the try/catch of TasksController.checkForAchievements: a failed stats
\* read is logged and answered with null
tryCheckForAchievements(statsFail, data, progress) ==
  IF statsFail THEN NoAchievement
  ELSE checkForAchievements(getUserAllTimeStats(data), progress)

\* bound = FALSE is the call through asyncResponse, without the receiver;
\* statsFail is the store failing on the stats read of checkForAchievements
SubmitDailyProgress(body, bound, statsFail) ==
  LET telegramId   == body.tg_id
      pages_read   == orDefault(body.pages_read)
      distance_km  == orDefault(body.distance_km)
      targetDate   == IF body.date = Null THEN Today ELSE body.date
      count        == completedCount(body.tasks)
      progressData == [tg_id |-> telegramId, date |-> targetDate,
                       tasks |-> body.tasks, pages_read |-> pages_read,
                       distance_km |-> distance_km, completed_count |-> count]
      savedProgress == dataToInsert(progressData)
      saved        == upsert(daily_progress, savedProgress)
      data         == {r \in saved : r.tg_id = telegramId}
      achievement  == tryCheckForAchievements(statsFail, data, savedProgress)
  IN  /\ sub.pc = "idle"
      /\ IF ~dailyProgressSchema(body)
         THEN /\ resp' = SubmitError(body, 400)
              /\ UNCHANGED <<daily_progress, nsub>>
         ELSE IF users[telegramId] # APPROVED
         THEN /\ resp' = SubmitError(body, 403)
              /\ UNCHANGED <<daily_progress, nsub>>
         ELSE IF ~bound
         THEN /\ resp' = SubmitError(body, 500)
              /\ UNCHANGED <<daily_progress, nsub>>
         ELSE IF ~validateSubmissionData(body.tasks, pages_read, distance_km)
         THEN /\ resp' = SubmitError(body, 400)
              /\ UNCHANGED <<daily_progress, nsub>>
         ELSE /\ nsub < MaxSubmits
              /\ daily_progress' = saved
              /\ nsub' = nsub + 1
              /\ resp' = IF achievement = Thrown
                         THEN [op |-> "submitDailyProgress", code |-> 500,
                               achievement_check_failed |-> TRUE]
                         ELSE
                         [op |-> "submitDailyProgress", code |-> 200, body |-> body,
                          total_points |-> count,
                          today_data |-> [completed |-> count,
                                          pages_read |-> progressData.pages_read,
                                          distance_km |-> progressData.distance_km],
                          achievement_unlocked |-> achievement,
                          achievement_check_failed |-> statsFail,
                          savedProgress |-> savedProgress]
      /\ UNCHANGED <<users, sub>>

----------------------------------------------------------------------------
(* The submission specification: user 1 .. MaxUsers - 1 are approved, the   *)
(* last user has any status, and user 1 has submitted on some earlier days. *)

\* the rows of days before the window, as the submission path saved them
EarlierRows(n) ==
  {Row(1, Today - 1 - i, TasksOneOfTwo, 0, 0, 1) : i \in 1..n}

EarlierDays == {0, 5, 6}

Bodies ==
  {[tg_id |-> tg, date |-> d, tasks |-> c.tasks, pages_read |-> c.pages_read,
    distance_km |-> c.distance_km, completed_count |-> c.completed_count] :
     tg \in TgIds, d \in Dates \cup {Null}, c \in Contents}

Init ==
  /\ users \in [TgIds -> USER_STATUS]
  /\ \A u \in TgIds : u < MaxUsers => users[u] = APPROVED
  /\ \E n \in EarlierDays : daily_progress = EarlierRows(n)
  /\ nsub = 0
  /\ sub = Idle
  /\ resp = NoResp

Next ==
  \E body \in Bodies, bound \in BOOLEAN :
    \E statsFail \in (IF bound THEN BOOLEAN ELSE {FALSE}) :
      SubmitDailyProgress(body, bound, statsFail)

Spec == Init /\ [][Next]_vars

----------------------------------------------------------------------------
(* router.post('/submit', validateDailyProgress,                            *)
(*             responseService.asyncResponse(tasksController.submitDaily-   *)
(* Progress)): the request is received, and asyncResponse then calls the    *)
(* method it was handed as a plain function, without a receiver. Until the  *)
(* response, resp holds the request being served.                           *)

Pending(body) == [op |-> "pending", code |-> 0, body |-> body]

\* a body that passes the middleware and validateSubmissionData
WellFormed(body) ==
  /\ dailyProgressSchema(body)
  /\ validateSubmissionData(body.tasks, orDefault(body.pages_read),
                            orDefault(body.distance_km))

\* a well-formed request of an approved user arrives at the route
ReceiveSubmit(body) ==
  /\ sub.pc = "idle"
  /\ resp.op = "none"
  /\ WellFormed(body)
  /\ users[body.tg_id] = APPROVED
  /\ resp' = Pending(body)
  /\ UNCHANGED <<users, daily_progress, nsub, sub>>

\* asyncResponse: await controllerFn(req, res, next)
DispatchSubmit ==
  /\ resp.op = "pending"
  /\ SubmitDailyProgress(resp.body, FALSE, FALSE)

NextRoute ==
  \/ \E body \in Bodies : ReceiveSubmit(body)
  \/ DispatchSubmit

\* express calls the handler of every request the middleware passed on
SpecRoute == Init /\ [][NextRoute]_vars /\ WF_vars(DispatchSubmit)

----------------------------------------------------------------------------
(* Concurrent submissions: MaxInFlight requests of user 1 are in the        *)
(* handler at once. Each await of TasksController.submitDailyProgress is a  *)
(* point where another request can run: a request saves its row             *)
(* (dailyProgressService.submitDailyProgress) in one step and reads the     *)
(* lifetime stats (checkForAchievements) in a later one. The handler is     *)
(* called with its receiver.                                                *)

MaxInFlight == 2

Requests == 1..MaxInFlight

Received == [pc |-> "received"]

Serving == [pc |-> "serving", requests |-> [i \in Requests |-> Received]]

ConcurrentBodies ==
  {[tg_id |-> 1, date |-> d, tasks |-> c.tasks, pages_read |-> c.pages_read,
    distance_km |-> c.distance_km, completed_count |-> c.completed_count] :
     d \in Dates,
     c \in {Content(TasksOneOfTwo, Null, Null, Null),
            Content(TasksAllTen, 5, 250, 3),
            Content(TasksOneOfTwo, MAX_PAGES_READ + 1, Null, Null)}}

\* request i up to and including `await submitDailyProgress(progressData)`;
\* created and days_after_save record what this upsert did to the table
SaveProgress(i, body) ==
  LET telegramId   == body.tg_id
      pages_read   == orDefault(body.pages_read)
      distance_km  == orDefault(body.distance_km)
      targetDate   == IF body.date = Null THEN Today ELSE body.date
      count        == completedCount(body.tasks)
      progressData == [tg_id |-> telegramId, date |-> targetDate,
                       tasks |-> body.tasks, pages_read |-> pages_read,
                       distance_km |-> distance_km, completed_count |-> count]
      savedProgress == dataToInsert(progressData)
      saved        == upsert(daily_progress, savedProgress)
      code         == IF ~dailyProgressSchema(body) THEN 400
                      ELSE IF users[telegramId] # APPROVED THEN 403
                      ELSE IF ~validateSubmissionData(body.tasks, pages_read,
                                                      distance_km) THEN 400
                      ELSE 200
  IN  /\ sub.pc = "serving"
      /\ sub.requests[i].pc = "received"
      /\ IF code # 200
         THEN /\ resp' = SubmitError(body, code)
              /\ sub' = [sub EXCEPT !.requests[i] =
                           [pc |-> "done", response |-> SubmitError(body, code)]]
              /\ UNCHANGED <<daily_progress, nsub>>
         ELSE /\ daily_progress' = saved
              /\ nsub' = nsub + 1
              /\ sub' = [sub EXCEPT !.requests[i] =
                           [pc |-> "saved", body |-> body,
                            savedProgress |-> savedProgress,
                            created |-> \A r \in daily_progress :
                                          ~(r.tg_id = savedProgress.tg_id
                                            /\ r.date = savedProgress.date),
                            days_after_save |->
                              Cardinality({r \in saved : r.tg_id = telegramId})]]
              /\ UNCHANGED resp
      /\ UNCHANGED users

\* request i from `await this.checkForAchievements(telegramId, savedProgress)`
\* to the response
CheckForAchievements(i) ==
  LET request     == sub.requests[i]
      data        == {r \in daily_progress : r.tg_id = request.body.tg_id}
      achievement == tryCheckForAchievements(FALSE, data, request.savedProgress)
      response    == [op |-> "submitDailyProgress", code |-> 200,
                      body |-> request.body,
                      total_points |-> request.savedProgress.completed_count,
                      achievement_unlocked |-> achievement,
                      achievement_check_failed |-> FALSE,
                      savedProgress |-> request.savedProgress]
  IN  /\ sub.pc = "serving"
      /\ request.pc = "saved"
      /\ resp' = response
      /\ sub' = [sub EXCEPT !.requests[i] =
                   [pc |-> "done", response |-> response,
                    created |-> request.created,
                    days_after_save |-> request.days_after_save]]
      /\ UNCHANGED <<users, daily_progress, nsub>>

InitConcurrent ==
  /\ users = [u \in TgIds |-> APPROVED]
  /\ \E n \in EarlierDays : daily_progress = EarlierRows(n)
  /\ nsub = 0
  /\ sub = Serving
  /\ resp = NoResp

NextConcurrent ==
  \E i \in Requests :
    \/ \E body \in ConcurrentBodies : SaveProgress(i, body)
    \/ CheckForAchievements(i)

SpecConcurrent == InitConcurrent /\ [][NextConcurrent]_vars

----------------------------------------------------------------------------
(* Accounts: registration, profile update and admin approval on the users   *)
(* table. In this part users maps the ids that have a row to the row, and   *)
(* MaxInFlight requests are in their handlers at once; every await of a     *)
(* handler is a point where another request can run.                        *)

NullValue == "null"
Undefined == "undefined"
PENDING == "pending"

\* x || null on a string column
orNull(x) == IF x \in {NullValue, Undefined, ""} THEN NullValue ELSE x

UserRow(tgId, name, username, photo_url, registration_date, status, is_premium) ==
  [tg_id |-> tgId, name |-> name, username |-> username,
   photo_url |-> photo_url, registration_date |-> registration_date,
   status |-> status, is_premium |-> is_premium]

\* UserService.upsertUser: the row it writes, every column from userData
userToInsert(userData) ==
  UserRow(userData.tg_id,
          userData.name,
          orNull(userData.username),
          orNull(userData.photo_url),
          IF userData.registration_date = Null THEN Today
          ELSE userData.registration_date,
          IF userData.status \in {NullValue, Undefined, ""} THEN PENDING
          ELSE userData.status,
          userData.is_premium)

\* .upsert(userToInsert, {onConflict: 'tg_id'}) on the users table
upsertUser(table, userData) ==
  [t \in DOMAIN table \cup {userData.tg_id} |->
     IF t = userData.tg_id THEN userToInsert(userData) ELSE table[t]]

Accounts == [pc |-> "accounts", requests |-> [i \in Requests |-> Received]]

Done(op, response) == [pc |-> "done", op |-> op, response |-> response]

AccountResponse(op, code, tgId, status) ==
  [op |-> op, code |-> code, tg_id |-> tgId, status |-> status]

\* AuthController.registerUser with a valid body: the lookup, and after its
\* await the upsert of a pending row when the lookup returned no user
RegisterUser(i, tgId, name) ==
  LET request  == sub.requests[i]
      existing == getUserByTelegramId(tgId)
      userData == UserRow(tgId, name, NullValue, NullValue, Today, PENDING, FALSE)
  IN  /\ sub.pc = "accounts"
      /\ IF request.pc = "received"
         THEN LET response ==
                    IF existing.thrown
                    THEN AccountResponse("registerUser", 500, tgId, NullValue)
                    ELSE AccountResponse("registerUser", 200, tgId,
                                         users[tgId].status)
              IN  /\ IF ~existing.thrown /\ existing.data = Null
                     THEN /\ sub' = [sub EXCEPT !.requests[i] =
                                       [pc |-> "creating", op |-> "registerUser",
                                        userData |-> userData]]
                          /\ UNCHANGED resp
                     ELSE /\ sub' = [sub EXCEPT !.requests[i] =
                                       Done("registerUser", response)]
                          /\ resp' = response
                  /\ UNCHANGED users
         ELSE /\ request.pc = "creating"
              /\ request.userData.tg_id = tgId
              /\ request.userData.name = name
              /\ users' = upsertUser(users, request.userData)
              /\ resp' = AccountResponse("registerUser", 201, tgId, PENDING)
              /\ sub' = [sub EXCEPT !.requests[i] =
                           Done("registerUser", resp')]
      /\ UNCHANGED <<daily_progress, nsub>>

\* router.post('/register') up to its select: the error PGRST116 of an absent
\* row is let through
RegisterCheck(i, tgId, name) ==
  LET response == AccountResponse("register", 200, tgId, users[tgId].status)
  IN  /\ sub.pc = "accounts"
      /\ sub.requests[i].pc = "received"
      /\ IF tgId \in DOMAIN users
         THEN /\ sub' = [sub EXCEPT !.requests[i] = Done("register", response)]
              /\ resp' = response
         ELSE /\ sub' = [sub EXCEPT !.requests[i] =
                           [pc |-> "inserting", op |-> "register",
                            userData |-> UserRow(tgId, name, NullValue, NullValue,
                                                 Today, PENDING, FALSE)]]
              /\ UNCHANGED resp
      /\ UNCHANGED <<users, daily_progress, nsub>>

\* router.post('/register') from its insert: a row of the same tg_id makes the
\* insert fail on the key the upserts name as onConflict
RegisterInsert(i) ==
  LET request == sub.requests[i]
      tgId    == request.userData.tg_id
  IN  /\ sub.pc = "accounts"
      /\ request.pc = "inserting"
      /\ IF tgId \in DOMAIN users
         THEN /\ resp' = AccountResponse("register", 500, tgId, NullValue)
              /\ UNCHANGED users
         ELSE /\ resp' = AccountResponse("register", 201, tgId, PENDING)
              /\ users' = [t \in DOMAIN users \cup {tgId} |->
                             IF t = tgId THEN request.userData ELSE users[t]]
      /\ sub' = [sub EXCEPT !.requests[i] = Done("register", resp')]
      /\ UNCHANGED <<daily_progress, nsub>>

\* AdminController.approveUser; updateUserStatus sets the status column only
ApproveUser(tgId) ==
  LET user == getUserByTelegramId(tgId)
  IN  /\ sub.pc = "accounts"
      /\ IF user.thrown
         THEN /\ resp' = AccountResponse("approveUser", 500, tgId, NullValue)
              /\ UNCHANGED users
         ELSE IF user.data = Null
         THEN /\ resp' = AccountResponse("approveUser", 404, tgId, NullValue)
              /\ UNCHANGED users
         ELSE /\ resp' = AccountResponse("approveUser", 200, tgId, APPROVED)
              /\ users' = [users EXCEPT ![tgId].status = APPROVED]
      /\ UNCHANGED <<daily_progress, nsub, sub>>

\* the bodies of PATCH /api/auth/profile/:tg_id
ProfileUpdates ==
  {[name |-> "Vali", username |-> Undefined],
   [name |-> Undefined, username |-> "vali"],
   [name |-> Undefined, username |-> Undefined],
   [name |-> "V", username |-> Undefined]}

\* {...user, ...updates}
spread(user, updates) ==
  [user EXCEPT !.name = IF updates.name = Undefined THEN @ ELSE updates.name,
               !.username = IF updates.username = Undefined THEN @
                            ELSE orNull(updates.username)]

\* length of name.trim() for the names of this model
nameLength(name) == IF name = "V" THEN 1 ELSE 4

\* AuthController.updateProfile up to and including its lookup and validation
ReadProfile(i, tgId, body) ==
  LET user == getUserByTelegramId(tgId)
      code == IF user.thrown THEN 500
              ELSE IF user.data = Null THEN 404
              ELSE IF body.name # Undefined /\ nameLength(body.name) < 2 THEN 400
              ELSE IF body.name = Undefined /\ body.username = Undefined THEN 400
              ELSE 200
  IN  /\ sub.pc = "accounts"
      /\ sub.requests[i].pc = "received"
      /\ IF code # 200
         THEN /\ resp' = AccountResponse("updateProfile", code, tgId, NullValue)
              /\ sub' = [sub EXCEPT !.requests[i] = Done("updateProfile", resp')]
         ELSE /\ sub' = [sub EXCEPT !.requests[i] =
                           [pc |-> "updating", op |-> "updateProfile",
                            user |-> users[tgId], updates |-> body]]
              /\ UNCHANGED resp
      /\ UNCHANGED <<users, daily_progress, nsub>>

\* AuthController.updateProfile from `await userService.upsertUser(...)`
UpsertProfile(i) ==
  LET request == sub.requests[i]
      written == upsertUser(users, spread(request.user, request.updates))
      tgId    == request.user.tg_id
  IN  /\ sub.pc = "accounts"
      /\ request.pc = "updating"
      /\ users' = written
      /\ resp' = AccountResponse("updateProfile", 200, tgId, written[tgId].status)
      /\ sub' = [sub EXCEPT !.requests[i] = Done("updateProfile", resp')]
      /\ UNCHANGED <<daily_progress, nsub>>

\* every id has no row or a pending row, as registration left it
InitAccounts ==
  /\ \E ids \in SUBSET TgIds :
       users = [t \in ids |-> UserRow(t, "Ali", "ali", "photo", Today - 1,
                                      PENDING, TRUE)]
  /\ daily_progress = {}
  /\ nsub = 0
  /\ sub = Accounts
  /\ resp = NoResp

NextAccounts ==
  \/ \E i \in Requests, tgId \in TgIds :
       \/ RegisterUser(i, tgId, "Ali")
       \/ RegisterCheck(i, tgId, "Ali")
       \/ \E body \in ProfileUpdates : ReadProfile(i, tgId, body)
  \/ \E i \in Requests : RegisterInsert(i) \/ UpsertProfile(i)
  \/ \E tgId \in TgIds : ApproveUser(tgId)

SpecAccounts == InitAccounts /\ [][NextAccounts]_vars

----------------------------------------------------------------------------
(* validateRateLimit(maxRequests, windowMs): the middleware and the Map it  *)
(* closes over. The middleware runs without an await, so a request is one   *)
(* step; the clock Date.now() moves between requests.                       *)

MaxRate == 2
MaxWindow == 2
MaxTime == 4
MaxServed == 5

\* req.ip || 'unknown'
Clients == {"10.0.0.1", "unknown"}

rateLimit_CountsRejected(requests, clientId, now, maxRequests, windowMs) ==
  LET kept == {id \in DOMAIN requests :
                 ~(now - requests[id].firstRequest > windowMs)}
      clientData == IF clientId \in kept
                    THEN [requests[clientId] EXCEPT !.count = @ + 1]
                    ELSE [count |-> 1, firstRequest |-> now]
      limited == clientData.count > maxRequests
  IN  [requests |-> [id \in kept \cup {clientId} |->
                       IF id = clientId THEN clientData ELSE requests[id]],
       passed |-> ~limited,
       remaining |-> IF limited THEN 0 ELSE maxRequests - clientData.count,
       reset |-> clientData.firstRequest + windowMs]

\* one run of the middleware on the Map `requests`: the Map it leaves, whether
\* next() was called, and the headers X-RateLimit-Remaining and -Reset
rateLimit(requests, clientId, now, maxRequests, windowMs) ==
  LET kept == {id \in DOMAIN requests :
                 ~(now - requests[id].firstRequest > windowMs)}
      found == IF clientId \in kept THEN requests[clientId]
               ELSE [count |-> 0, firstRequest |-> now]
      clientData == IF now - found.firstRequest > windowMs
                    THEN [count |-> 0, firstRequest |-> now]
                    ELSE found
      limited == clientData.count >= maxRequests
      counted == IF limited THEN clientData
                 ELSE [clientData EXCEPT !.count = @ + 1]
  IN  [requests |-> [id \in kept \cup {clientId} |->
                       IF id = clientId THEN counted ELSE requests[id]],
       passed |-> ~limited,
       remaining |-> IF limited THEN 0 ELSE maxRequests - counted.count,
       reset |-> counted.firstRequest + windowMs]

\* a request of clientId reaches the middleware; log keeps the requests handed
\* to next()
ValidateRateLimit(clientId) ==
  LET result == rateLimit(sub.requests, clientId, sub.now,
                          sub.maxRequests, sub.windowMs)
  IN  /\ sub.pc = "limiting"
      /\ nsub < MaxServed
      /\ nsub' = nsub + 1
      /\ sub' = [sub EXCEPT !.requests = result.requests,
                            !.log = IF result.passed
                                    THEN Append(@, [clientId |-> clientId,
                                                    at |-> sub.now])
                                    ELSE @]
      /\ resp' = [op |-> "validateRateLimit",
                  code |-> IF result.passed THEN 200 ELSE 429,
                  clientId |-> clientId,
                  remaining |-> result.remaining,
                  reset |-> result.reset]
      /\ UNCHANGED <<users, daily_progress>>

\* Date.now() is later at the next request
Tick ==
  /\ sub.pc = "limiting"
  /\ sub.now < MaxTime
  /\ sub' = [sub EXCEPT !.now = @ + 1]
  /\ UNCHANGED <<users, daily_progress, nsub, resp>>

InitRateLimit ==
  /\ users = << >>
  /\ daily_progress = {}
  /\ nsub = 0
  /\ \E maxRequests \in 1..MaxRate, windowMs \in 0..MaxWindow :
       sub = [pc |-> "limiting", maxRequests |-> maxRequests,
              windowMs |-> windowMs, requests |-> << >>, now |-> 0,
              log |-> << >>]
  /\ resp = NoResp

NextRateLimit ==
  \/ \E clientId \in Clients : ValidateRateLimit(clientId)
  \/ Tick

SpecRateLimit == InitRateLimit /\ [][NextRateLimit]_vars

----------------------------------------------------------------------------
(* Properties of the leaderboard and statistics reads *)

IsLeaderboard == resp.op = "getLeaderboard" /\ resp.code = 200

IsStats == resp.op = "getUserAllTimeStats" /\ resp.code = 200

\* the sum of a column over rows, by value: each value times the rows holding it
RECURSIVE SumOfValues(_, _, _)
SumOfValues(vals, rows, field) ==
  IF vals = {} THEN 0
  ELSE LET v == CHOOSE x \in vals : TRUE
       IN  v * Cardinality({r \in rows : r[field] = v})
             + SumOfValues(vals \ {v}, rows, field)

ColumnSum(rows, field) ==
  SumOfValues({r[field] : r \in rows} \ {Null}, rows, field)

\* the rows of one user among those the period selects
RowsInPeriod(tg, period) ==
  {r \in daily_progress : /\ r.tg_id = tg
                          /\ \/ period = "all"
                             \/ period = "daily" /\ r.date >= Today
                             \/ period = "weekly" /\ r.date >= Today - 7
                             \/ period = "monthly" /\ r.date >= Today - 30}

\* C1: the aggregated stats of a user are the column sums of that user's rows
\* (a missing column counting 0) and the number of rows, in getUserAllTimeStats
\* and in every group of getLeaderboardData.
C1_StatsAdditive ==
  /\ IsStats =>
       LET rows == {r \in daily_progress : r.tg_id = resp.tg_id}
       IN  /\ resp.stats.total_points = ColumnSum(rows, "completed_count")
           /\ resp.stats.total_pages = ColumnSum(rows, "pages_read")
           /\ resp.stats.total_distance = ColumnSum(rows, "distance_km")
           /\ resp.stats.total_days = Cardinality(rows)
  /\ IsLeaderboard =>
       \A i \in 1..Len(resp.leaderboardData) :
         LET e    == resp.leaderboardData[i]
             rows == RowsInPeriod(e.tg_id, resp.period)
         IN  /\ e.total_points = ColumnSum(rows, "completed_count")
             /\ e.total_pages = ColumnSum(rows, "pages_read")
             /\ e.total_distance = ColumnSum(rows, "distance_km")
             /\ e.days_count = Cardinality(rows)

\* C1 witness: stats were computed for a user with several rows, one of them
\* with null columns, and a non-zero total.
C1_Witness ==
  /\ IsStats
  /\ Cardinality({r \in daily_progress : r.tg_id = resp.tg_id}) >= 3
  /\ \E r \in daily_progress :
       r.tg_id = resp.tg_id /\ r.completed_count = Null /\ r.pages_read = Null
  /\ resp.stats.total_points = 2
  /\ resp.stats.total_distance = 100

\* the tg_ids of a sequence of entries
Ids(entries) == [i \in 1..Len(entries) |-> entries[i].tg_id]

\* C2 (as claimed): the page is the entries at zero-based positions
\* offset .. offset+limit-1 of the full sorted leaderboard.
C2_PageIsOffsetWindow ==
  IsLeaderboard =>
    LET full == sortedLeaderboard(resp.period, resp.type)
    IN  Ids(resp.leaderboard) =
          Ids(SubSeq(full, resp.offset + 1,
                     Min(resp.offset + resp.limit, Len(full))))

\* the metric a leaderboard type selects
MetricOf(type) ==
  CASE type = "reading"     -> "total_pages"
    [] type = "distance"    -> "total_distance"
    [] type = "consistency" -> "days_count"
    [] OTHER                -> "total_points"

\* C3 (as claimed): for every type the entries are in descending order of the
\* type's metric and carry it as score.
C3_ScoreIsTypeMetric ==
  IsLeaderboard =>
    LET lb == resp.leaderboardData
        m  == MetricOf(resp.type)
    IN  /\ \A i \in 1..Len(lb) : lb[i].score = lb[i][m]
        /\ \A i \in 1..(Len(lb) - 1) : lb[i][m] >= lb[i + 1][m]

\* C4: adjacent entries of a returned leaderboard have non-increasing scores.
C4_ScoresNonIncreasing ==
  IsLeaderboard =>
    \A i \in 1..(Len(resp.leaderboard) - 1) :
      resp.leaderboard[i].score >= resp.leaderboard[i + 1].score

\* C4 witness: two entries were returned with the later-registered id first,
\* so the sort reordered them.
C4_Witness ==
  /\ IsLeaderboard
  /\ Len(resp.leaderboard) >= 2
  /\ resp.leaderboard[1].tg_id > resp.leaderboard[2].tg_id
  /\ resp.leaderboard[1].score > resp.leaderboard[2].score

\* the approved users with rows in the period, each with the score of the order
\* the build sorted by
Participants(period) ==
  {u \in TgIds : users[u] = "approved" /\ RowsInPeriod(u, period) # {}}

SortedBy(type) ==
  CASE type = "reading"  -> "pages_read"
    [] type = "distance" -> "distance_km"
    [] OTHER             -> "completed_count"

ScoreOf(u, period, type) == ColumnSum(RowsInPeriod(u, period), SortedBy(type))

\* the participants placed before u: a higher score, or the same score and a
\* smaller id
Before(u, period, type) ==
  {v \in Participants(period) :
     \/ ScoreOf(v, period, type) > ScoreOf(u, period, type)
     \/ ScoreOf(v, period, type) = ScoreOf(u, period, type) /\ v < u}

\* C5: every returned entry carries as rank its 1-based position in the full
\* sorted set of participants, whatever limit and offset were passed; the
\* returned ranks are contiguous from 1.
C5_RankIsGlobalPosition ==
  IsLeaderboard =>
    LET full == sortedLeaderboard(resp.period, resp.type)
    IN  \A i \in 1..Len(resp.leaderboard) :
          LET e == resp.leaderboard[i]
          IN  /\ e.rank = i
              /\ e.rank \in 1..Len(full)
              /\ full[e.rank].tg_id = e.tg_id
              /\ e.rank = 1 + Cardinality(Before(e.tg_id, resp.period, resp.type))

\* C5 witness: a page shorter than the full set was returned for a non-zero
\* offset.
C5_Witness ==
  /\ IsLeaderboard
  /\ resp.offset >= 1
  /\ resp.limit = 1
  /\ Len(resp.leaderboard) = 1
  /\ Cardinality(Participants(resp.period)) >= 2

\* C6: every entry belongs to an approved user; a pending, rejected or suspended
\* user is in no leaderboard.
C6_OnlyApproved ==
  IsLeaderboard =>
    /\ \A i \in 1..Len(resp.leaderboard) :
         users[resp.leaderboard[i].tg_id] = "approved"
    /\ \A u \in TgIds :
         users[u] \in {"pending", "rejected", "suspended"} =>
           \A i \in 1..Len(resp.leaderboard) : resp.leaderboard[i].tg_id # u

\* C6 witness: a leaderboard with an entry was built while a suspended user had
\* rows in the period.
C6_Witness ==
  /\ IsLeaderboard
  /\ Len(resp.leaderboard) >= 1
  /\ \E u \in TgIds :
       users[u] = "suspended" /\ RowsInPeriod(u, resp.period) # {}

----------------------------------------------------------------------------
(* Properties of the submission path *)

IsSubmitted == resp.op = "submitDailyProgress" /\ resp.code = 200

\* the date a submitted body is saved under
TargetDate(body) == IF body.date = Null THEN Today ELSE body.date

\* the rows stored under the key of the last accepted submission
RowsOfLastKey ==
  {r \in daily_progress :
     r.tg_id = resp.body.tg_id /\ r.date = TargetDate(resp.body)}

\* C7: the store holds at most one row per (tg_id, date), and after an accepted
\* submission the row of its key carries that submission's tasks, pages_read,
\* distance_km and completed_count, whatever was stored under the key before.
C7_OneRowPerKeyLatestWins ==
  /\ \A r1, r2 \in daily_progress :
       r1.tg_id = r2.tg_id /\ r1.date = r2.date => r1 = r2
  /\ IsSubmitted =>
       /\ Cardinality(RowsOfLastKey) = 1
       /\ \A r \in RowsOfLastKey :
            /\ r.tasks = resp.body.tasks
            /\ r.pages_read =
                 (IF resp.body.pages_read = Null THEN 0 ELSE resp.body.pages_read)
            /\ r.distance_km =
                 (IF resp.body.distance_km = Null THEN 0 ELSE resp.body.distance_km)
            /\ r.completed_count = resp.total_points
            /\ r.completed_count = resp.today_data.completed

\* C7 witness: two submissions were saved and the window holds one row, so the
\* second one hit the key of the first; the row is the all-ten submission.
C7_Witness ==
  /\ IsSubmitted
  /\ nsub = 2
  /\ Cardinality({r \in daily_progress : r.date \in Dates}) = 1
  /\ resp.body.tasks = TasksAllTen
  /\ resp.total_points = 10

\* C8 (as claimed): the saved completed_count is the number of slots of the
\* submitted task map whose value is true.
C8_CountIsTrueSlots ==
  IsSubmitted =>
    resp.savedProgress.completed_count =
      Cardinality({k \in DOMAIN resp.body.tasks : resp.body.tasks[k] = BoolTrue})

\* C9 (as claimed): every saved row has completed_count in 0..10.
C9_CountInRange ==
  \A r \in daily_progress :
    r.completed_count >= 0 /\ r.completed_count <= 10

\* the number of rows the user of the last accepted submission has
LifetimeDays ==
  Cardinality({r \in daily_progress : r.tg_id = resp.savedProgress.tg_id})

Badges == {"first_day", "week_warrior", "perfect_day"}

\* C10: when the stats read of the check succeeds, the reported achievement is
\* a single badge or none, by priority: first_day at a lifetime count of 1,
\* else week_warrior at exactly 7, else perfect_day at a saved completed_count
\* of 10, else none.
C10_AchievementPriority ==
  IsSubmitted /\ ~resp.achievement_check_failed =>
    LET a  == resp.achievement_unlocked
        cc == resp.savedProgress.completed_count
    IN  /\ a \in Badges \cup {"none"}
        /\ LifetimeDays = 1 => a = "first_day"
        /\ LifetimeDays = 7 => a = "week_warrior"
        /\ LifetimeDays \notin {1, 7} /\ cc = 10 => a = "perfect_day"
        /\ LifetimeDays \notin {1, 7} /\ cc # 10 => a = "none"

\* C10 witness: a perfect first day was answered with first_day.
C10_Witness ==
  /\ IsSubmitted
  /\ ~resp.achievement_check_failed
  /\ LifetimeDays = 1
  /\ resp.savedProgress.completed_count = 10
  /\ resp.achievement_unlocked = "first_day"


\* C11: when the store fails on the stats read of the achievement check, the
\* submission still answers 200, reports no achievement, and the row it saved
\* is the row of its key in the store.
C11_CheckFailureIsSwallowed ==
  (resp.op = "submitDailyProgress" /\ resp.achievement_check_failed) =>
     /\ resp.code = 200
     /\ resp.achievement_unlocked = NoAchievement
     /\ RowsOfLastKey = {resp.savedProgress}

\* a failed check on a submission that would otherwise have earned a badge
C11_Witness ==
  /\ IsSubmitted
  /\ resp.achievement_check_failed
  /\ resp.savedProgress.completed_count = TOTAL_DAILY_TASKS
  /\ resp.savedProgress \in daily_progress


\* the operations that take a period or a type
LeaderboardOps ==
  {"getLeaderboard", "getUserLeaderboardPosition", "getLeaderboardStats",
   "getTopPerformers"}

\* C12: a request of a leaderboard operation whose period or type is not one
\* of the listed values is answered 400 and no leaderboard fetch was issued.
C12_InvalidRejectedBeforeRead ==
  (resp.op \in LeaderboardOps /\
     (resp.period \notin TIME_PERIODS \/ resp.type \notin LEADERBOARD_TYPES)) =>
       (resp.code = 400 /\ resp.reads = 0)

\* C13: a leaderboard request on which a store fetch failed does not answer
\* 200 (no entries, no participant total).
C13_AllOrNothing ==
  (resp.op = "getLeaderboard" /\ resp.store_failed) => resp.code # 200


\* C14: a lookup of a user id that has no user row does not end in a database
\* failure: checkUser answers 200 'not registered', the position lookup 404.
C14_AbsentUserIsNotAFailure ==
  (resp.op \in {"checkUser", "getUserLeaderboardPosition"}
     /\ resp.tg_id > 0 /\ resp.tg_id \notin DOMAIN users
     /\ (resp.op = "getUserLeaderboardPosition" =>
           resp.period \in TIME_PERIODS /\ resp.type \in LEADERBOARD_TYPES)) =>
       /\ ~resp.database_error
       /\ resp.op = "checkUser" => (resp.code = 200 /\ ~resp.isRegistered)
       /\ resp.op = "getUserLeaderboardPosition" => resp.code = 404


IsPosition == resp.op = "getUserLeaderboardPosition" /\ resp.code = 200

\* C15: an approved user with no row in the period is answered 200 with
\* user_position null and the number of participants of the period and type.
C15_NoRecordIsNullPosition ==
  (resp.op = "getUserLeaderboardPosition"
     /\ resp.tg_id \in DOMAIN users
     /\ resp.period \in TIME_PERIODS /\ resp.type \in LEADERBOARD_TYPES
     /\ ~resp.database_error
     /\ users[resp.tg_id] = APPROVED
     /\ RowsInPeriod(resp.tg_id, resp.period) = {}) =>
       /\ resp.code = 200
       /\ resp.user_position_null
       /\ resp.total_participants =
            Cardinality({u \in DOMAIN users :
                           /\ users[u] = APPROVED
                           /\ RowsInPeriod(u, resp.period) # {}})

\* an unbound call for a user whose only row is older than the week asked for
C15_Witness ==
  /\ IsPosition
  /\ resp.user_position_null
  /\ ~resp.bound
  /\ resp.period = "weekly"
  /\ selectByUser(resp.tg_id) # {}
  /\ resp.total_participants >= 2


\* a position lookup that found the user on the board
IsRanked == IsPosition /\ ~resp.user_position_null

\* C16: for a user found at zero-based position p of n entries, rank = p + 1
\* and percentile is the integer nearest to (1 - p / n) * 100, a half rounded
\* upwards, for every n >= 1 and p in 0 .. n - 1.
C16_RankAndPercentile ==
  resp.op = "percentile" =>
    LET pos == resp.userPosition
        n   == resp.length
        pct == resp.percentile
    IN  /\ resp.rank = pos + 1
        /\ 2 * n * pct <= 200 * (n - pos) + n
        /\ 2 * n * pct >  200 * (n - pos) - n

\* C17: the surrounding users are exactly the entries at the zero-based
\* indices max(0, p - 3) .. min(n, p + 4) - 1 in board order, each with rank =
\* its index + 1, and the entry of index p alone is marked is_current_user.
C17_SurroundingWindow ==
  IsRanked =>
    LET pos   == resp.userPosition
        n     == Len(resp.fullLeaderboard)
        lo    == IF pos - 3 > 0 THEN pos - 3 ELSE 0
        hi    == (IF pos + 4 < n THEN pos + 4 ELSE n) - 1
        users_ == resp.surrounding_users
    IN  /\ Len(users_) = hi - lo + 1
        /\ \A k \in 1..Len(users_) :
             /\ users_[k].tg_id = resp.fullLeaderboard[lo + k].tg_id
             /\ users_[k].score = resp.fullLeaderboard[lo + k].score
             /\ users_[k].rank = lo + k
             /\ users_[k].is_current_user <=> (lo + k - 1 = pos)
        /\ Cardinality({k \in 1..Len(users_) : users_[k].is_current_user}) = 1

\* the top of a board of 8: nothing above, three below, four not shown
C17_Witness ==
  /\ IsRanked
  /\ Len(resp.fullLeaderboard) = 8
  /\ resp.userPosition = 0
  /\ Len(resp.surrounding_users) = 4


\* the ladder of each category, lowest tier first
Tiers ==
  [points      |-> <<[at |-> 100, id |-> "point_collector"],
                     [at |-> 500, id |-> "point_master"]>>,
   reading     |-> <<[at |-> 100, id |-> "bookworm"],
                     [at |-> 500, id |-> "book_lover"],
                     [at |-> 1000, id |-> "library_master"]>>,
   fitness     |-> <<[at |-> 5000, id |-> "runner"],
                     [at |-> 20000, id |-> "marathon_hero"],
                     [at |-> 50000, id |-> "ultra_runner"]>>,
   consistency |-> <<[at |-> 7, id |-> "week_warrior"],
                     [at |-> 30, id |-> "month_master"],
                     [at |-> 100, id |-> "centurion"]>>]

StatOf(stats, category) ==
  CASE category = "points"  -> stats.total_points
    [] category = "reading" -> stats.total_pages
    [] category = "fitness" -> stats.total_distance
    [] OTHER                -> stats.days_count

\* C18: in tiered mode every category contributes no badge when its stat is
\* below the lowest threshold, and otherwise exactly one badge, that of the
\* highest threshold the stat meets.
C18_OneBadgePerCategory ==
  resp.op = "calculateUserAchievements" =>
    \A category \in DOMAIN Tiers :
      LET badges == {i \in 1..Len(resp.achievements) :
                       resp.achievements[i].category = category}
          met    == {t \in 1..Len(Tiers[category]) :
                       StatOf(resp.stats, category) >= Tiers[category][t].at}
      IN  IF met = {} THEN badges = {}
          ELSE /\ Cardinality(badges) = 1
               /\ \A i \in badges :
                    resp.achievements[i].id = Tiers[category][Cardinality(met)].id

\* 600 points: point_master and not point_collector
C18_Witness ==
  /\ resp.op = "calculateUserAchievements"
  /\ resp.stats.total_points = 600
  /\ \E i \in 1..Len(resp.achievements) : resp.achievements[i].id = "point_master"
  /\ \A i \in 1..Len(resp.achievements) : resp.achievements[i].id # "point_collector"


\* the ids a cumulative response carries
Awarded == {resp.achievements[i] : i \in 1..Len(resp.achievements)}

\* C20: in cumulative mode a badge is awarded exactly when its own threshold
\* is met, each once, so the higher badge of a ladder never comes without the
\* lower one.
C20_EveryTierMet ==
  resp.op = "calculateAchievements" =>
    /\ ("week_warrior" \in Awarded) <=> (resp.stats.total_days >= 7)
    /\ ("month_master" \in Awarded) <=> (resp.stats.total_days >= 30)
    /\ ("bookworm" \in Awarded) <=> (resp.stats.total_pages >= 100)
    /\ ("library_master" \in Awarded) <=> (resp.stats.total_pages >= 1000)
    /\ ("runner" \in Awarded) <=> (resp.stats.total_distance >= 5000)
    /\ ("marathon_hero" \in Awarded) <=> (resp.stats.total_distance >= 20000)
    /\ ("point_collector" \in Awarded) <=> (resp.stats.total_points >= 100)
    /\ Cardinality(Awarded) = Len(resp.achievements)
    /\ "month_master" \in Awarded => "week_warrior" \in Awarded
    /\ "library_master" \in Awarded => "bookworm" \in Awarded
    /\ "marathon_hero" \in Awarded => "runner" \in Awarded

\* 1000 pages: both reading badges
C20_Witness ==
  /\ resp.op = "calculateAchievements"
  /\ resp.stats.total_pages = 1000
  /\ {"bookworm", "library_master"} \subseteq Awarded


\* the lifetime stats of a user, from the rows of the store
LifetimeStats(u) ==
  [total_points   |-> ColumnSum(selectByUser(u), "completed_count"),
   total_pages    |-> ColumnSum(selectByUser(u), "pages_read"),
   total_distance |-> ColumnSum(selectByUser(u), "distance_km"),
   days_count     |-> Cardinality(selectByUser(u))]

\* the achievement score of a user: 25, 50 or 100 for the tier reached in
\* each category
ScoreOfTier(t) == IF t = 0 THEN 0 ELSE IF t = 1 THEN 25 ELSE IF t = 2 THEN 50 ELSE 100

TierReached(u, category) ==
  Cardinality({t \in 1..Len(Tiers[category]) :
                 StatOf(LifetimeStats(u), category) >= Tiers[category][t].at})

AchievementScoreOf(u) ==
  ScoreOfTier(TierReached(u, "points")) + ScoreOfTier(TierReached(u, "reading"))
    + ScoreOfTier(TierReached(u, "fitness"))
    + ScoreOfTier(TierReached(u, "consistency"))

\* the approved users that hold a row
Achievers == {u \in DOMAIN users : users[u] = APPROVED /\ selectByUser(u) # {}}

\* C19: the achievement leaderboard lists min(limit, participants) approved
\* participants with their achievement scores, in non-increasing order of
\* score, ranked from 1, and no participant left out has a strictly higher
\* score than one that is listed.
C19_TopByAchievementScore ==
  (resp.op = "getAchievementLeaderboard" /\ resp.code = 200) =>
    LET board  == resp.achievement_leaderboard
        listed == {board[i].tg_id : i \in 1..Len(board)}
    IN  /\ listed \subseteq Achievers
        /\ \A i \in 1..Len(board) :
             /\ board[i].rank = i
             /\ board[i].achievement_score = AchievementScoreOf(board[i].tg_id)
        /\ \A i, j \in 1..Len(board) :
             i < j => board[i].achievement_score >= board[j].achievement_score
        /\ \A u \in Achievers \ listed : \A v \in listed :
             AchievementScoreOf(u) <= AchievementScoreOf(v)


IsStatistics == resp.op = "calculateLeaderboardStats"

\* the score column of the board the statistics were computed from
ScoreColumn == [i \in 1..Len(resp.leaderboardData) |-> resp.leaderboardData[i].score]

\* C21: on a board of n >= 1 entries every score is counted into exactly one
\* bucket, the first of <= 10, <= 50, <= 100, <= 200, '200+' that matches, so
\* each bucket holds the number of scores in its range and the five counts sum
\* to n.
C21_BucketsPartitionScores ==
  (IsStatistics /\ Len(resp.leaderboardData) >= 1) =>
    LET d == resp.statistics.completion_distribution
        n == Len(resp.leaderboardData)
        count(lo, hi) == Cardinality({i \in 1..n : ScoreColumn[i] >= lo
                                                     /\ ScoreColumn[i] <= hi})
    IN  /\ DOMAIN d = {"0-10", "11-50", "51-100", "101-200", "200+"}
        /\ d["0-10"] = Cardinality({i \in 1..n : ScoreColumn[i] <= 10})
        /\ d["11-50"] = count(11, 50)
        /\ d["51-100"] = count(51, 100)
        /\ d["101-200"] = count(101, 200)
        /\ d["200+"] = Cardinality({i \in 1..n : ScoreColumn[i] > 200})
        /\ d["0-10"] + d["11-50"] + d["51-100"] + d["101-200"] + d["200+"] = n

\* scores exactly on two boundaries, counted below them
C21_Witness ==
  /\ IsStatistics
  /\ Len(resp.leaderboardData) = 3
  /\ ScoreColumn = <<200, 10, 10>>
  /\ resp.statistics.completion_distribution["0-10"] = 2
  /\ resp.statistics.completion_distribution["101-200"] = 1

\* C22: on a board of n >= 1 entries in descending order of score, median is
\* the score at zero-based index floor(n / 2), the top-10% threshold the score
\* at floor(n / 10), most_active_score the first and largest score, and both
\* indices lie in 0 .. n - 1.
C22_OrderStatistics ==
  (IsStatistics /\ Len(resp.leaderboardData) >= 1) =>
    LET n == Len(resp.leaderboardData)
    IN  /\ (n \div 2) \in 0..(n - 1)
        /\ (n \div 10) \in 0..(n - 1)
        /\ resp.statistics.median_points = ScoreColumn[(n \div 2) + 1]
        /\ resp.statistics.top_10_percent_threshold = ScoreColumn[(n \div 10) + 1]
        /\ resp.statistics.most_active_score = ScoreColumn[1]
        /\ \A i \in 1..n : ScoreColumn[i] <= resp.statistics.most_active_score
        /\ resp.statistics.total_participants = n

\* ten entries, the first alone on top: the threshold is the second score,
\* the median the sixth
C22_Witness ==
  /\ IsStatistics
  /\ Len(resp.leaderboardData) = 10
  /\ ScoreColumn[1] > ScoreColumn[2]
  /\ resp.statistics.most_active_score = ScoreColumn[1]
  /\ resp.statistics.top_10_percent_threshold = ScoreColumn[2]
  /\ resp.statistics.median_points = ScoreColumn[6]

\* C23: on an empty board every numeric field is 0 and the distribution is
\* the empty map.
C23_EmptyBoardIsAllZero ==
  (IsStatistics /\ Len(resp.leaderboardData) = 0) =>
    /\ resp.statistics.total_participants = 0
    /\ resp.statistics.average_points = 0
    /\ resp.statistics.median_points = 0
    /\ resp.statistics.top_10_percent_threshold = 0
    /\ resp.statistics.most_active_score = 0
    /\ DOMAIN resp.statistics.completion_distribution = {}

C23_Witness ==
  /\ IsStatistics
  /\ resp.leaderboardData = << >>
  /\ resp.statistics.total_participants = 0


\* a step that is a submission answered with success
SubmissionSucceeds ==
  /\ nsub' = nsub + 1
  /\ resp'.op = "submitDailyProgress"
  /\ resp'.code = 200

\* C24: a submission reports first_day only when the user had no record before
\* it; an overwrite of the user's only record does not report it again.
C24_FirstDayOnlyOnFirstRecord ==
  [][(SubmissionSucceeds /\ resp'.achievement_unlocked = "first_day") =>
       {r \in daily_progress : r.tg_id = resp'.body.tg_id} = {}]_vars


\* C25: the submission whose save made the user's record count 7 reports
\* week_warrior, also when other submissions of the user are in the handler.
C25_SeventhRecordReportsWeekWarrior ==
  sub.pc = "serving" =>
    \A i \in Requests :
      (/\ sub.requests[i].pc = "done"
       /\ sub.requests[i].response.code = 200
       /\ sub.requests[i].created
       /\ sub.requests[i].days_after_save = 7) =>
        sub.requests[i].response.achievement_unlocked = "week_warrior"


\* C26: a successful leaderboard response has no more entries than
\* total_participants and no rank above it, also when the store changes between
\* the page build and the participant count.
C26_PageWithinTotal ==
  (resp.op = "getLeaderboard" /\ resp.code = 200) =>
    /\ Len(resp.leaderboard) <= resp.total_participants
    /\ \A i \in 1..Len(resp.leaderboard) :
         resp.leaderboard[i].rank <= resp.total_participants


\* request i takes a step of the given handlers
StepOf(i, ops) ==
  /\ sub.pc = "accounts"
  /\ sub'.requests[i] # sub.requests[i]
  /\ sub'.requests[i].op \in ops

\* C27: a step of a registration request changes no row that exists, so an
\* approved row is never set back to pending by it, and a request that finds
\* the row answers with the row's status.
C27_RegisterLeavesRowsAlone ==
  [][\A i \in Requests :
       StepOf(i, {"registerUser", "register"}) =>
         /\ \A t \in DOMAIN users : t \in DOMAIN users' /\ users'[t] = users[t]
         /\ (sub.requests[i].pc = "received" /\ sub'.requests[i].pc = "done"
               /\ sub'.requests[i].response.code = 200) =>
              /\ users' = users
              /\ sub'.requests[i].response.status =
                   users[sub'.requests[i].response.tg_id].status]_vars

\* a registerUser request found the row that the other request, a registration
\* of the same id, had inserted and the admin had approved since
C27_Witness ==
  /\ sub.pc = "accounts"
  /\ \E i \in Requests, j \in Requests :
       /\ sub.requests[i].pc = "done"
       /\ sub.requests[i].op = "registerUser"
       /\ sub.requests[i].response.code = 200
       /\ sub.requests[i].response.status = APPROVED
       /\ sub.requests[j].pc = "done"
       /\ sub.requests[j].op = "register"
       /\ sub.requests[j].response.code = 201
       /\ sub.requests[j].response.tg_id = sub.requests[i].response.tg_id
       /\ users[sub.requests[i].response.tg_id].status = APPROVED

\* C28: the write of updateProfile leaves status, is_premium, photo_url and
\* registration_date of the row as the store holds them at that moment.
C28_ProfileWriteKeepsOtherColumns ==
  [][\A i \in Requests :
       (StepOf(i, {"updateProfile"}) /\ sub.requests[i].pc = "updating") =>
         LET t == sub.requests[i].user.tg_id
         IN  /\ users'[t].status = users[t].status
             /\ users'[t].is_premium = users[t].is_premium
             /\ users'[t].photo_url = users[t].photo_url
             /\ users'[t].registration_date = users[t].registration_date]_vars


\* the requests of a client handed to next() within the client's stored window
PassedInWindow(clientId) ==
  {k \in 1..Len(sub.log) :
     /\ sub.log[k].clientId = clientId
     /\ sub.log[k].at >= sub.requests[clientId].firstRequest
     /\ sub.log[k].at <= sub.requests[clientId].firstRequest + sub.windowMs}

\* C29: for every client at most maxRequests requests are passed on between
\* firstRequest and firstRequest + windowMs, the stored count never exceeds
\* maxRequests, X-RateLimit-Remaining is never negative, and a rejected
\* request leaves the client's count as it was.
C29_RateLimitHolds ==
  /\ [](sub.pc = "limiting" =>
         /\ \A clientId \in DOMAIN sub.requests :
              /\ sub.requests[clientId].count <= sub.maxRequests
              /\ Cardinality(PassedInWindow(clientId)) <= sub.maxRequests
         /\ resp.op = "validateRateLimit" => resp.remaining >= 0)
  /\ [][(nsub' = nsub + 1 /\ resp'.code = 429) =>
          /\ resp'.clientId \in DOMAIN sub.requests
          /\ sub'.requests[resp'.clientId].count =
               sub.requests[resp'.clientId].count]_vars

\* a client is rejected at the last instant of a window it has used up
C29_Witness ==
  /\ sub.pc = "limiting"
  /\ resp.op = "validateRateLimit"
  /\ resp.code = 429
  /\ sub.maxRequests = 2
  /\ sub.windowMs > 0
  /\ sub.now = sub.requests[resp.clientId].firstRequest + sub.windowMs
  /\ Cardinality(PassedInWindow(resp.clientId)) = 2
  /\ Len(sub.log) > 2


\* C30: a well-formed submission of an approved user received at the tasks
\* route is eventually saved and answered with success.
C30_RoutedSubmissionSucceeds ==
  (resp.op = "pending") ~>
    (/\ resp.op = "submitDailyProgress"
     /\ resp.code = 200
     /\ resp.savedProgress \in daily_progress)

====
